---- MODULE Spec2Model ----
(***************************************************************************)
(* Custom-hostname controller of the platform template                     *)
(* (src/src/cloudflare-api.ts) run by one caller against the Cloudflare    *)
(* custom_hostnames API.  Every await of the three exported functions is a *)
(* separate step.  The transport is either a zone that holds records and   *)
(* answers from them, or a scripted one that answers every request with    *)
(* any status and envelope of the sample set; either may fail to connect.  *)
(*                                                                         *)
(* The second half is the provisioning run of the setup scripts            *)
(* (SetupManager in the TypeScript setup script and scripts/setup.js,      *)
(* detectZoneId in scripts/setup-quick.js): one run at a time against a    *)
(* Cloudflare account, every awaited request a separate step.  SetupSpec   *)
(* is its specification; Spec is the controller's.                         *)
(***************************************************************************)
EXTENDS Naturals, Sequences, FiniteSets, TLC

VARIABLES
  transport,  \* what fetch reaches: "zone" (holds records) or "scripted" (any answer)
  env,        \* the worker's bindings: zone id and the two API tokens ("" = unset)
  upstream,   \* the zone's custom hostnames: hostname -> records, in listing order
  call,       \* the invocation in progress or last finished: [fn, hostname]
  pc,         \* its position: idle, awaitFetch, awaitJson, awaitDelete, done
  requests,   \* the upstream requests this invocation has issued, in order
  responses,  \* the upstream responses this invocation has received, in order
  outcome,    \* how the invocation settled: [kind, value]
  acked       \* per hostname, the last acknowledged change since the last opposite call

vars == <<transport, env, upstream, call, pc, requests, responses, outcome, acked>>

VARIABLES
  config,     \* SetupManager.config of the run in progress or last finished
  account,    \* the Cloudflare account the run talks to, and how it answers
  step,       \* the run's position [at, i] (i: round of the zone or route loop) and the route listing it holds
  sent,       \* the upstream requests this run has issued, in order
  console,    \* what this run has logged: [level, about] in order
  disk,       \* the project files: .env/.dev.vars and wrangler.toml
  exitCode,   \* None while running, Some(0) on completion, Some(1) after process.exit(1)
  reply,      \* the run's latest settled fetch: [n, to, fetched], n its place in sent (None before the first)
  history     \* run number, how this run relates to the one before it, namespaces created so far,
              \* whether this run's access probe was answered with a denial, and what
              \* this run's namespace command ended with (cli)

setupVars == <<config, account, step, sent, console, disk, exitCode, reply, history>>

VARIABLES
  projects,      \* the projects table of the D1 database: None while absent, else its rows in rowid order
  isInitialized, \* the module-level flag of autoInitializeDatabase
  tasks,         \* per caller, its autoInitializeDatabase or Initialize in progress: [fn, at]
  statements,    \* the statements autoInitializeDatabase has issued in this worker instance, in order
  returned       \* the latest registry call that settled: [fn, args, completion]

registryVars == <<projects, isInitialized, tasks, statements, returned>>

VARIABLES
  shown          \* the latest line a setup script printed that carries a stored value: [by, question, value, text]

promptVars == <<shown>>

VARIABLES
  runs           \* two provisioning runs that go on at once against account: run -> [at, config, mintedAtProbe]

raceVars == <<runs>>

allVars == <<vars, setupVars, registryVars, promptVars, raceVars>>

\* What a step of one part leaves alone.
besidesApi == <<setupVars, registryVars, promptVars, raceVars>>
besidesSetup == <<vars, registryVars, promptVars, raceVars>>
besidesRegistry == <<vars, setupVars, promptVars, raceVars>>
besidesPrompts == <<vars, setupVars, registryVars, raceVars>>

----------------------------------------------------------------------------
(* Bounds and input domains *)

\* Most records the upstream holds for one hostname (duplicates are a
\* latent inconsistency the controller does not reconcile).
MaxRecords == 2

Hostnames == {"foo.com", "shop.example.org"}

ZoneIds == {"", "zone-1"}
ApiTokens == {"", "ssl-token"}
DispatchTokens == {"", "dispatch-token"}

\* An optional value: <<>> is undefined/null, <<v>> is v.
None == <<>>
Some(v) == <<v>>

----------------------------------------------------------------------------
(* String helpers (JavaScript String.prototype.includes) *)

Includes(s, needle) ==
  \E i \in 1..Len(s) :
    /\ i + Len(needle) - 1 <= Len(s)
    /\ SubSeq(s, i, i + Len(needle) - 1) = needle

----------------------------------------------------------------------------
(* getAuthHeaders / isApiConfigured *)

getAuthHeaders(e) ==
  LET token == IF e.CLOUDFLARE_API_TOKEN # ""
               THEN e.CLOUDFLARE_API_TOKEN
               ELSE e.DISPATCH_NAMESPACE_API_TOKEN
  IN IF token # ""
     THEN {<<"Authorization", "Bearer " \o token>>,
           <<"Content-Type", "application/json">>}
     ELSE {}

\* isApiConfigured forgetting the zone id.
isApiConfiguredTokenOnly(e) ==
  e.CLOUDFLARE_API_TOKEN # "" \/ e.DISPATCH_NAMESPACE_API_TOKEN # ""

\* isApiConfigured with || for &&.
isApiConfiguredEither(e) ==
  LET hasAuth == e.CLOUDFLARE_API_TOKEN # "" \/ e.DISPATCH_NAMESPACE_API_TOKEN # ""
  IN e.CLOUDFLARE_ZONE_ID # "" \/ hasAuth

isApiConfigured(e) ==
  LET hasAuth == e.CLOUDFLARE_API_TOKEN # "" \/ e.DISPATCH_NAMESPACE_API_TOKEN # ""
  IN e.CLOUDFLARE_ZONE_ID # "" /\ hasAuth

----------------------------------------------------------------------------
(* Shapes of the upstream API: CloudflareApiResponse<T> and the custom       *)
(* hostname records it carries.                                              *)

\* response.ok
Ok(status) == status \in 200..299

\* CloudflareApiResponse: the parsed body. type is "object" for an envelope,
\* "null" for the JSON value null, "unparseable" when response.json() rejects.
Envelope(success, result, errors) ==
  [type |-> "object", success |-> success, result |-> result, errors |-> errors]
NullBody == [type |-> "null", success |-> FALSE, result |-> None, errors |-> None]
UnparseableBody ==
  [type |-> "unparseable", success |-> FALSE, result |-> None, errors |-> None]

\* One entry of errors[]; messageType is the JSON type of the message field.
ApiError(code, message) ==
  [code |-> code, message |-> message, messageType |-> "string"]
NumericMessageError == [code |-> 1000, message |-> "1000", messageType |-> "number"]

MsgAuthenticationError == "Authentication error"
MsgAuthorizationHeader == "Invalid format for Authorization header"
MsgLowerAuthentication == "Unable to complete authentication"
MsgLowerAuthorization == "Request lacks authorization"
MsgDuplicate == "Duplicate custom hostname found."

SampleMessages ==
  {MsgAuthenticationError, MsgAuthorizationHeader, MsgLowerAuthentication,
   MsgLowerAuthorization, MsgDuplicate, ""}

SampleErrors ==
  {None, Some(<<>>), Some(<<NumericMessageError>>),
   Some(<<ApiError(1406, MsgDuplicate), ApiError(10000, MsgAuthenticationError)>>)}
  \cup {Some(<<ApiError(1400, m)>>) : m \in SampleMessages}

\* The ssl block of an upstream record, each optional field present or not.
HttpValidationRecord ==
  [http_url |-> "http://foo.com/.well-known/acme-challenge/t", http_body |-> "t.k"]
SslMethodOnly ==
  [status |-> "pending_validation", method |-> Some("http"),
   validation_method |-> None, validation_errors |-> None,
   validation_records |-> None]
SslAlternateOnly ==
  [status |-> "active", method |-> None, validation_method |-> Some("txt"),
   validation_errors |-> Some(<<>>),
   validation_records |-> Some(<<HttpValidationRecord>>)]
SslBoth ==
  [status |-> "pending_validation", method |-> Some("http"),
   validation_method |-> Some("txt"),
   validation_errors |-> Some(<<"caa_error">>),
   validation_records |-> Some(<<HttpValidationRecord>>)]
SslNeither ==
  [status |-> "initializing", method |-> None, validation_method |-> None,
   validation_errors |-> None, validation_records |-> None]

HostnameRecord(id, status, ssl, verificationErrors) ==
  [id |-> id, status |-> status, ssl |-> ssl,
   verification_errors |-> verificationErrors]

\* Records a listing may carry; "moved" and "blocked" are statuses of the
\* upstream API outside the controller's four.
SampleRecords ==
  {HostnameRecord(<<"foo.com", 1>>, "pending", Some(SslMethodOnly), None),
   HostnameRecord(<<"foo.com", 2>>, "active", Some(SslAlternateOnly), Some(<<>>)),
   HostnameRecord(<<"foo.com", 1>>, "pending", Some(SslBoth),
                  Some(<<"custom hostname does not CNAME to this zone.">>)),
   HostnameRecord(<<"foo.com", 1>>, "moved", None, None),
   HostnameRecord(<<"foo.com", 2>>, "blocked", Some(SslNeither), None)}

DuplicateListing ==
  <<HostnameRecord(<<"foo.com", 2>>, "active", Some(SslAlternateOnly), Some(<<>>)),
    HostnameRecord(<<"foo.com", 1>>, "pending", Some(SslMethodOnly), None)>>

SampleResults ==
  {None, Some(<<>>), Some(DuplicateListing)} \cup {Some(<<r>>) : r \in SampleRecords}

SampleBodies ==
  {UnparseableBody, NullBody,
   Envelope(TRUE, None, Some(<<ApiError(10000, MsgAuthenticationError)>>)),
   Envelope(FALSE, Some(DuplicateListing), None)}
  \cup {Envelope(TRUE, r, None) : r \in SampleResults}
  \cup {Envelope(FALSE, None, e) : e \in SampleErrors}

QueryStatuses == {200, 403, 500}

\* A Response: HTTP status, body, whether the upstream answered from the
\* records it holds, and what became of the body stream.
Response(status, body, fromStore) ==
  [status |-> status, body |-> body, fromStore |-> fromStore, bodyState |-> "unread"]

\* What an awaited fetch settles to: a rejection or a Response.
Rejected == [rejected |-> TRUE, response |-> None]
Fulfilled(r) == [rejected |-> FALSE, response |-> Some(r)]

----------------------------------------------------------------------------
(* How an invocation settles *)

Return(v) == [kind |-> "returned", value |-> Some(v)]
Throw == [kind |-> "threw", value |-> None]
Unsettled == [kind |-> "pending", value |-> None]

\* The requests the three functions issue (method, URL, headers).
CreateRequest(e, hostname) ==
  [method |-> "POST",
   url |-> <<"zones", e.CLOUDFLARE_ZONE_ID, "custom_hostnames">>,
   headers |-> getAuthHeaders(e),
   body |-> Some([hostname |-> hostname, method |-> "http", type |-> "dv"])]
QueryRequest(e, hostname) ==
  [method |-> "GET",
   url |-> <<"zones", e.CLOUDFLARE_ZONE_ID, "custom_hostnames?hostname=", hostname>>,
   headers |-> getAuthHeaders(e),
   body |-> None]
DeleteRequest(e, hostnameId) ==
  [method |-> "DELETE",
   url |-> <<"zones", e.CLOUDFLARE_ZONE_ID, "custom_hostnames", hostnameId>>,
   headers |-> getAuthHeaders(e),
   body |-> None]

----------------------------------------------------------------------------
(* createCustomHostname *)

\* createSettled returning true for whatever response arrived.
createSettledAnyResponse(fetched) ==
  IF fetched.rejected THEN Return(FALSE) ELSE Return(TRUE)

\* try { response = await fetch(...); return response.ok } catch { return false }
createSettled(fetched) ==
  IF fetched.rejected THEN Return(FALSE) ELSE Return(Ok(fetched.response[1].status))

\* finally { response?.body?.cancel() }
createFinally(fetched) ==
  IF fetched.rejected
  THEN <<>>
  ELSE <<[fetched.response[1] EXCEPT !.bodyState = "cancelled"]>>

----------------------------------------------------------------------------
(* getCustomHostnameStatus *)

StatusRecord(status, ssl, verificationErrors) ==
  [status |-> status, ssl |-> ssl, verification_errors |-> verificationErrors]

MsgSetupRequired ==
  "Custom domains require additional setup. Please contact the platform administrator."

getStatusUnconfigured == StatusRecord("error", None, Some(<<"API not configured">>))

\* result.errors?.[0]?.message || 'API request failed'
firstErrorMessage(result) ==
  IF result.errors = None \/ Len(result.errors[1]) = 0
       \/ result.errors[1][1].message = ""
  THEN [message |-> "API request failed", messageType |-> "string"]
  ELSE [message |-> result.errors[1][1].message,
        messageType |-> result.errors[1][1].messageType]

\* the auth test of the error branch
isAuthFailure(errorMsg, status) ==
  \/ Includes(errorMsg, "Authentication")
  \/ Includes(errorMsg, "authorization")
  \/ status = 403

\* the error branch: if (!response.ok || !result.success) { ... }
getStatusError(response, result) ==
  LET errorMsg == firstErrorMessage(result) IN
  IF errorMsg.messageType # "string"
  THEN Throw    \* errorMsg.includes is not a function
  ELSE IF isAuthFailure(errorMsg.message, response.status)
       THEN Return(StatusRecord("error", None, Some(<<MsgSetupRequired>>)))
       ELSE Return(StatusRecord("error", None, Some(<<errorMsg.message>>)))

\* validationMethod preferring the alternate field.
validationMethodAlternateFirst(ssl) ==
  IF ssl.validation_method # None THEN ssl.validation_method ELSE ssl.method

\* ssl.method || ssl.validation_method
validationMethod(ssl) ==
  IF ssl.method # None THEN ssl.method ELSE ssl.validation_method

\* x || []
orEmpty(x) == IF x = None THEN <<>> ELSE x[1]

\* the mapping of result.result[0]
normalize(hostnameData) ==
  StatusRecord(
    hostnameData.status,
    IF hostnameData.ssl # None
    THEN Some([status |-> hostnameData.ssl[1].status,
               validation_method |-> validationMethod(hostnameData.ssl[1]),
               validation_errors |-> orEmpty(hostnameData.ssl[1].validation_errors),
               validation_records |-> orEmpty(hostnameData.ssl[1].validation_records)])
    ELSE None,
    Some(orEmpty(hostnameData.verification_errors)))

\* if (!result.result || result.result.length === 0)
isEmptyResult(result) == result.result = None \/ Len(result.result[1]) = 0

\* getStatusParsed testing result.result.length without the !result.result guard.
getStatusParsedLengthOnly(response) ==
  LET result == response.body IN
  IF result.type = "null"
  THEN Throw
  ELSE IF ~Ok(response.status) \/ ~result.success
       THEN getStatusError(response, result)
       ELSE IF result.result = None
            THEN Throw    \* length of undefined
            ELSE IF Len(result.result[1]) = 0
                 THEN Return(StatusRecord("not_found", None, None))
                 ELSE Return(normalize(result.result[1][1]))

\* the statements after `await response.json()`, given the parsed body
getStatusParsed(response) ==
  LET result == response.body IN
  IF result.type = "null"
  THEN Throw    \* result.success / result.errors of null
  ELSE IF ~Ok(response.status) \/ ~result.success
       THEN getStatusError(response, result)
       ELSE IF isEmptyResult(result)
            THEN Return(StatusRecord("not_found", None, None))
            ELSE Return(normalize(result.result[1][1]))

\* getStatusCatch letting the exception through.
getStatusCatchRethrows(completion) == completion

\* catch (error) { return { status: 'error', verification_errors: ['Network error'] } }
getStatusCatch(completion) ==
  IF completion.kind = "threw"
  THEN Return(StatusRecord("error", None, Some(<<"Network error">>)))
  ELSE completion

\* getStatusBody testing response.status before it parses the body.
getStatusBodyStatusFirst(response) ==
  getStatusCatch(IF response.body.type = "unparseable"
                 THEN IF response.status = 403
                      THEN Return(StatusRecord("error", None, Some(<<MsgSetupRequired>>)))
                      ELSE Throw
                 ELSE getStatusParsed(response))

\* await response.json() and everything after it, inside the try
getStatusBody(response) ==
  getStatusCatch(IF response.body.type = "unparseable"
                 THEN Throw
                 ELSE getStatusParsed(response))

----------------------------------------------------------------------------
(* deleteCustomHostname *)

\* catch (error) { return false }
deleteCatch(completion) ==
  IF completion.kind = "threw" THEN Return(FALSE) ELSE completion

\* lookupFailed looking at the result list alone.
lookupFailedResultOnly(listResponse) ==
  LET listResult == listResponse.body IN
  \/ listResult.result = None
  \/ Len(listResult.result[1]) = 0

\* if (!listResponse.ok || !listResult.success || !listResult.result?.length)
lookupFailed(listResponse) ==
  LET listResult == listResponse.body IN
  \/ ~Ok(listResponse.status)
  \/ ~listResult.success
  \/ listResult.result = None
  \/ Len(listResult.result[1]) = 0

\* deleteLookup taking the id of the last record listed.
deleteLookupLast(listResponse) ==
  deleteCatch(
    IF listResponse.body.type = "unparseable"
    THEN Throw
    ELSE IF Ok(listResponse.status) /\ listResponse.body.type = "null"
         THEN Throw
         ELSE IF lookupFailed(listResponse)
              THEN Return(FALSE)
              ELSE [kind |-> "continue",
                    value |-> Some(listResponse.body.result[1][
                                     Len(listResponse.body.result[1])].id)])

\* from `await listResponse.json()` to the DELETE: a completion, or
\* [kind |-> "continue"] carrying listResult.result[0].id
deleteLookup(listResponse) ==
  deleteCatch(
    IF listResponse.body.type = "unparseable"
    THEN Throw
    ELSE IF Ok(listResponse.status) /\ listResponse.body.type = "null"
         THEN Throw    \* listResult.success of null
         ELSE IF lookupFailed(listResponse)
              THEN Return(FALSE)
              ELSE [kind |-> "continue",
                    value |-> Some(listResponse.body.result[1][1].id)])

\* deleteSettled returning true once the DELETE was answered at all.
deleteSettledAnyResponse(fetched) ==
  deleteCatch(IF fetched.rejected THEN Throw ELSE Return(TRUE))

\* return deleteResponse.ok, inside the try
deleteSettled(fetched) ==
  deleteCatch(IF fetched.rejected THEN Throw
              ELSE Return(Ok(fetched.response[1].status)))

----------------------------------------------------------------------------
(* The upstream: the zone's custom hostnames behind the API *)

SslOfStatus(status) ==
  IF status = "pending" THEN Some(SslMethodOnly)
  ELSE Some([SslMethodOnly EXCEPT !.status = "active"])

\* The record the API lists for a stored hostname.
UpstreamRecord(rec) == HostnameRecord(rec.id, rec.status, SslOfStatus(rec.status), None)

Listing(store, hostname) ==
  [i \in 1..Len(store[hostname]) |-> UpstreamRecord(store[hostname][i])]

UsedIds(store, hostname) ==
  {store[hostname][i].id[2] : i \in 1..Len(store[hostname])}

NewId(store, hostname) ==
  <<hostname,
    CHOOSE k \in 1..MaxRecords :
      /\ k \notin UsedIds(store, hostname)
      /\ \A j \in 1..(k - 1) : j \in UsedIds(store, hostname)>>

\* The zone lists a hostname's records in id order.
Inserted(records, rec) ==
  LET before == SelectSeq(records, LAMBDA r : r.id[2] < rec.id[2])
      after == SelectSeq(records, LAMBDA r : r.id[2] > rec.id[2])
  IN before \o <<rec>> \o after

Stored(store, hostname) ==
  [store EXCEPT ![hostname] =
     Inserted(@, [id |-> NewId(store, hostname), status |-> "pending"])]

HoldsId(store, id) ==
  \E h \in Hostnames : \E i \in 1..Len(store[h]) : store[h][i].id = id

Removed(store, id) ==
  [h \in Hostnames |-> SelectSeq(store[h], LAMBDA r : r.id # id)]

Answer(fetched, store) == [fetched |-> fetched, store |-> store]

Acknowledged(status, fromStore) ==
  Fulfilled(Response(status, Envelope(TRUE, None, Some(<<>>)), fromStore))
Refused(status, message, fromStore) ==
  Fulfilled(Response(status, Envelope(FALSE, None, Some(<<ApiError(1400, message)>>)),
                     fromStore))

\* POST custom_hostnames.  Zone: the transport fails (before or after the
\* zone acted), the zone acknowledges and stores a record, or it refuses.
\* Scripted: any outcome.
CreateAnswers(mode, store, hostname) ==
  IF mode = "zone"
  THEN {Answer(Rejected, store)}
       \cup (IF Len(store[hostname]) < MaxRecords
             THEN {Answer(Rejected, Stored(store, hostname)),
                   Answer(Acknowledged(201, TRUE), Stored(store, hostname))}
             ELSE {})
       \cup {Answer(Refused(st, MsgDuplicate, TRUE), store) : st \in {403, 409}}
  ELSE {Answer(Rejected, store)}
       \cup {Answer(Acknowledged(st, FALSE), store) : st \in {200, 201}}
       \cup {Answer(Refused(st, MsgDuplicate, FALSE), store) : st \in {403, 409, 500}}

\* GET custom_hostnames?hostname=h.  Zone: the transport fails, the zone
\* lists the records it holds, or it is failing.  Scripted: any sample
\* status with any sample body.
QueryAnswers(mode, store, hostname) ==
  IF mode = "zone"
  THEN {Answer(Rejected, store),
        Answer(Fulfilled(Response(200,
                 Envelope(TRUE, Some(Listing(store, hostname)), Some(<<>>)), TRUE)),
               store),
        Answer(Refused(500, "Internal error", TRUE), store)}
  ELSE {Answer(Rejected, store)}
       \cup {Answer(Fulfilled(Response(st, b, FALSE)), store) :
               st \in QueryStatuses, b \in SampleBodies}

\* DELETE custom_hostnames/{id}.  Zone: the transport fails, the zone removes
\* the record it holds under that id and acknowledges, or it refuses.
\* Scripted: any outcome.
DeleteAnswers(mode, store, id) ==
  IF mode = "zone"
  THEN {Answer(Rejected, store)}
       \cup (IF HoldsId(store, id)
             THEN {Answer(Rejected, Removed(store, id)),
                   Answer(Acknowledged(200, TRUE), Removed(store, id))}
             ELSE {Answer(Refused(404, "Not found", TRUE), store)})
       \cup {Answer(Refused(403, MsgAuthenticationError, TRUE), store)}
  ELSE {Answer(Rejected, store)}
       \cup {Answer(Acknowledged(200, FALSE), store)}
       \cup {Answer(Refused(st, MsgAuthenticationError, FALSE), store) :
               st \in {403, 404, 500}}

----------------------------------------------------------------------------
(* History kept for the create/delete contracts *)

\* acked[h] = "created": createCustomHostname(h) returned true and
\* deleteCustomHostname(h) has not been called since; "deleted": the converse,
\* the lookup of that delete having listed one record; "deletedFirst": the
\* same, the lookup having listed several.
AckedOnCall(fn, old) ==
  IF \/ (fn = "create" /\ old \in {"deleted", "deletedFirst"})
     \/ (fn = "delete" /\ old = "created")
  THEN "none" ELSE old

AckedOnReturn(fn, completion, old) ==
  IF fn = "create" /\ completion = Return(TRUE) THEN "created"
  ELSE IF fn = "delete" /\ completion = Return(TRUE)
       THEN IF Len(responses[1].body.result[1]) = 1 THEN "deleted" ELSE "deletedFirst"
       ELSE old

----------------------------------------------------------------------------
(* The provisioning run at rest *)

\* this.config = {} : nothing collected, nothing resolved.  The field names
\* are those of scripts/setup.js; the TypeScript script spells them
\* CLOUDFLARE_API_TOKEN, CUSTOM_DOMAIN, CLOUDFLARE_ZONE_ID and routesAdded.
NoConfig ==
  [variant |-> "none", authMethod |-> "token", customDomain |-> "", zoneId |-> "",
   typedZoneId |-> "",
   credentials |-> [apiToken |-> "", apiKey |-> "", apiEmail |-> ""],
   wfpAvailable |-> None, existingNamespaces |-> None,
   dispatchNamespaceId |-> None, dispatchToken |-> None,
   createdToken |-> FALSE, routesCreated |-> FALSE]

\* An account that holds nothing and grants nothing.  dropped: a request to
\* the account has failed in transport.
NoAccount ==
  [mode |-> "account", tokenValid |-> FALSE, canList |-> FALSE, canMint |-> FALSE,
   namespaces |-> <<>>, minted |-> 0, routes |-> <<>>, zones |-> {}, dropped |-> FALSE]

NotStarted == [at |-> "idle", i |-> 0, existingRoutes |-> <<>>]
NoFiles ==
  [envWritten |-> FALSE, wranglerPresent |-> FALSE, wranglerWritten |-> FALSE,
   routesWritten |-> FALSE, zoneIdWritten |-> FALSE, tokenWritten |-> None]
NoHistory ==
  [run |-> 0, afterCompleted |-> FALSE, sameInputs |-> FALSE, created |-> 0,
   probeDenied |-> FALSE, cli |-> None]

\* No provisioning run takes place.
SetupQuiet ==
  /\ config = NoConfig
  /\ account = NoAccount
  /\ step = NotStarted
  /\ sent = <<>>
  /\ console = <<>>
  /\ disk = NoFiles
  /\ exitCode = None
  /\ reply = None
  /\ history = NoHistory

\* The requests of one worker instance that may call the registry at once.
Callers == {"r1", "r2"}

NoTask == [fn |-> "none", at |-> "idle"]
NothingReturned == [fn |-> "none", args |-> <<>>, completion |-> Unsettled]

\* The worker module has just been loaded and nothing calls the registry.
RegistryQuiet ==
  /\ projects = None
  /\ isInitialized = FALSE
  /\ tasks = [c \in Callers |-> NoTask]
  /\ statements = <<>>
  /\ returned = NothingReturned

NothingShown == [by |-> "none", question |-> "", value |-> "", text |-> ""]

\* No setup script has printed a stored value.
PromptQuiet == shown = NothingShown

\* The provisioning runs that may go on at once.
RunIds == {"A", "B"}

\* mintedAtProbe: the tokens the account had minted when this run's
\* ensureDispatchToken probed.
NoRun == [at |-> "idle", config |-> NoConfig, mintedAtProbe |-> 0]

\* No two runs go on at once.
RaceQuiet == runs = [r \in RunIds |-> NoRun]

----------------------------------------------------------------------------
(* Initial state *)

Init ==
  /\ transport \in {"zone", "scripted"}
  /\ env \in [CLOUDFLARE_ZONE_ID : ZoneIds,
              CLOUDFLARE_API_TOKEN : ApiTokens,
              DISPATCH_NAMESPACE_API_TOKEN : DispatchTokens]
  /\ upstream = [h \in Hostnames |-> <<>>]
  /\ call = [fn |-> "none", hostname |-> ""]
  /\ pc = "idle"
  /\ requests = <<>>
  /\ responses = <<>>
  /\ outcome = Unsettled
  /\ acked = [h \in Hostnames |-> "none"]
  /\ SetupQuiet
  /\ RegistryQuiet
  /\ PromptQuiet
  /\ RaceQuiet

Idle == pc \in {"idle", "done"}

\* Entry of any of the three functions: the isApiConfigured() gate, then the
\* first fetch is issued.
Enter(fn, hostname, unconfigured, request) ==
  /\ Idle
  /\ call' = [fn |-> fn, hostname |-> hostname]
  /\ responses' = <<>>
  /\ acked' = [acked EXCEPT ![hostname] = AckedOnCall(fn, @)]
  /\ IF ~isApiConfigured(env)
     THEN /\ pc' = "done"
          /\ requests' = <<>>
          /\ outcome' = Return(unconfigured)
     ELSE /\ pc' = "awaitFetch"
          /\ requests' = <<request>>
          /\ outcome' = Unsettled
  /\ UNCHANGED <<transport, env, upstream>>
  /\ UNCHANGED besidesApi

Settle(completion) ==
  /\ pc' = "done"
  /\ outcome' = completion
  /\ acked' = [acked EXCEPT ![call.hostname] = AckedOnReturn(call.fn, completion, @)]

----------------------------------------------------------------------------
(* createCustomHostname(hostname) *)

CreateCall(hostname) ==
  Enter("create", hostname, FALSE, CreateRequest(env, hostname))

CreateFetchSettles ==
  /\ pc = "awaitFetch" /\ call.fn = "create"
  /\ \E a \in CreateAnswers(transport, upstream, call.hostname) :
       /\ upstream' = a.store
       /\ responses' = createFinally(a.fetched)
       /\ Settle(createSettled(a.fetched))
  /\ UNCHANGED <<transport, env, call, requests>>
  /\ UNCHANGED besidesApi

----------------------------------------------------------------------------
(* getCustomHostnameStatus(hostname) *)

GetStatusCall(hostname) ==
  Enter("getStatus", hostname, getStatusUnconfigured, QueryRequest(env, hostname))

\* GetStatusFetchSettles issuing the query again when the transport fails.
GetStatusFetchSettlesRetrying ==
  /\ pc = "awaitFetch" /\ call.fn = "getStatus"
  /\ \E a \in QueryAnswers(transport, upstream, call.hostname) :
       /\ upstream' = a.store
       /\ IF a.fetched.rejected
          THEN /\ responses' = <<>>
               /\ requests' = Append(requests, requests[1])
               /\ UNCHANGED <<pc, outcome, acked>>
          ELSE /\ responses' = <<a.fetched.response[1]>>
               /\ pc' = "awaitJson"
               /\ UNCHANGED <<requests, outcome, acked>>
  /\ UNCHANGED <<transport, env, call>>
  /\ UNCHANGED besidesApi

GetStatusFetchSettles ==
  /\ pc = "awaitFetch" /\ call.fn = "getStatus"
  /\ \E a \in QueryAnswers(transport, upstream, call.hostname) :
       /\ upstream' = a.store
       /\ IF a.fetched.rejected
          THEN /\ responses' = <<>>
               /\ Settle(getStatusCatch(Throw))
          ELSE /\ responses' = <<a.fetched.response[1]>>
               /\ pc' = "awaitJson"
               /\ UNCHANGED <<outcome, acked>>
  /\ UNCHANGED <<transport, env, call, requests>>
  /\ UNCHANGED besidesApi

GetStatusJsonSettles ==
  /\ pc = "awaitJson" /\ call.fn = "getStatus"
  /\ responses' = <<[responses[1] EXCEPT !.bodyState = "read"]>>
  /\ Settle(getStatusBody(responses[1]))
  /\ UNCHANGED <<transport, env, upstream, call, requests>>
  /\ UNCHANGED besidesApi

----------------------------------------------------------------------------
(* deleteCustomHostname(hostname) *)

DeleteCall(hostname) ==
  Enter("delete", hostname, FALSE, QueryRequest(env, hostname))

DeleteListSettles ==
  /\ pc = "awaitFetch" /\ call.fn = "delete"
  /\ \E a \in QueryAnswers(transport, upstream, call.hostname) :
       /\ upstream' = a.store
       /\ IF a.fetched.rejected
          THEN /\ responses' = <<>>
               /\ Settle(deleteCatch(Throw))
          ELSE /\ responses' = <<a.fetched.response[1]>>
               /\ pc' = "awaitJson"
               /\ UNCHANGED <<outcome, acked>>
  /\ UNCHANGED <<transport, env, call, requests>>
  /\ UNCHANGED besidesApi

DeleteJsonSettles ==
  /\ pc = "awaitJson" /\ call.fn = "delete"
  /\ responses' = <<[responses[1] EXCEPT !.bodyState = "read"]>>
  /\ LET next == deleteLookup(responses[1]) IN
       IF next.kind = "continue"
       THEN /\ pc' = "awaitDelete"
            /\ requests' = Append(requests, DeleteRequest(env, next.value[1]))
            /\ UNCHANGED <<outcome, acked>>
       ELSE /\ Settle(next)
            /\ UNCHANGED requests
  /\ UNCHANGED <<transport, env, upstream, call>>
  /\ UNCHANGED besidesApi

DeleteFetchSettles ==
  /\ pc = "awaitDelete" /\ call.fn = "delete"
  /\ \E a \in DeleteAnswers(transport, upstream, requests[2].url[4]) :
       /\ upstream' = a.store
       /\ responses' = IF a.fetched.rejected THEN responses
                       ELSE Append(responses, a.fetched.response[1])
       /\ Settle(deleteSettled(a.fetched))
  /\ UNCHANGED <<transport, env, call, requests>>
  /\ UNCHANGED besidesApi

----------------------------------------------------------------------------
(* The upstream finishes validating a pending hostname *)

UpstreamActivates(hostname) ==
  /\ \E i \in 1..Len(upstream[hostname]) :
       /\ upstream[hostname][i].status = "pending"
       /\ upstream' = [upstream EXCEPT ![hostname][i].status = "active"]
  /\ UNCHANGED <<transport, env, call, pc, requests, responses, outcome, acked>>
  /\ UNCHANGED besidesApi

Next ==
  \/ \E h \in Hostnames : CreateCall(h)
  \/ CreateFetchSettles
  \/ \E h \in Hostnames : GetStatusCall(h)
  \/ GetStatusFetchSettles
  \/ GetStatusJsonSettles
  \/ \E h \in Hostnames : DeleteCall(h)
  \/ DeleteListSettles
  \/ DeleteJsonSettles
  \/ DeleteFetchSettles
  \/ \E h \in Hostnames : UpstreamActivates(h)

Spec == Init /\ [][Next]_allVars

----------------------------------------------------------------------------
(* Vocabulary of the properties *)

Done(fn) == pc = "done" /\ call.fn = fn

\* The zone id is set and at least one of the two tokens is.
Configured ==
  /\ env.CLOUDFLARE_ZONE_ID # ""
  /\ (env.CLOUDFLARE_API_TOKEN # "" \/ env.DISPATCH_NAMESPACE_API_TOKEN # "")

\* The invocation received an answer to its hostname query, with a body
\* that parsed to an envelope.
QueryAnswered ==
  /\ call.fn \in {"getStatus", "delete"}
  /\ Len(responses) >= 1
QueryEnvelope == QueryAnswered /\ responses[1].body.type = "object"

\* The answer is a success envelope (2xx and success = true).
QuerySucceeded ==
  /\ QueryEnvelope
  /\ responses[1].status >= 200 /\ responses[1].status <= 299
  /\ responses[1].body.success

\* ... whose result set is empty or absent.
QueryFoundNothing ==
  /\ QuerySucceeded
  /\ \/ responses[1].body.result = None
     \/ responses[1].body.result = Some(<<>>)

\* ... whose result set has a first record.
QueryFoundRecord ==
  /\ QuerySucceeded
  /\ responses[1].body.result # None
  /\ responses[1].body.result # Some(<<>>)
FirstRecord == responses[1].body.result[1][1]

Returned == outcome.value[1]

----------------------------------------------------------------------------
\* C1: with the API configured, whenever the upstream answers the hostname
\* query with a success envelope whose result set is empty or absent,
\* getCustomHostnameStatus returns status not_found with no ssl block and no
\* verification errors.
C1_EmptyResultIsNotFound ==
  (Configured /\ Done("getStatus") /\ QueryFoundNothing)
    => /\ outcome.kind = "returned"
       /\ Returned.status = "not_found"
       /\ Returned.ssl = None
       /\ Returned.verification_errors = None

\* C1 witness: a success envelope with no result field was answered and the
\* function returned.
C1_Witness ==
  /\ Configured /\ Done("getStatus") /\ QueryFoundNothing
  /\ responses[1].body.result = None
  /\ Returned.status = "not_found"

\* The hostname query was answered with a non-success response: a status
\* outside 2xx, or an envelope with success = false.
C2_LookupNonSuccess ==
  /\ QueryAnswered
  /\ \/ ~(responses[1].status \in 200..299)
     \/ (responses[1].body.type = "object" /\ ~responses[1].body.success)

\* C2: deleteCustomHostname on a hostname whose lookup returns zero matching
\* records, or whose lookup is answered with a non-success response, returns
\* false and issues no DELETE request.
C2_DeleteOfNothing ==
  (call.fn = "delete" /\ pc # "awaitJson"
     /\ (QueryFoundNothing \/ C2_LookupNonSuccess))
    => /\ pc = "done"
       /\ outcome = Return(FALSE)
       /\ Len(requests) = 1
       /\ requests[1].method = "GET"
       /\ Len(responses) = 1

\* C2 witness: the zone listed no record for the hostname and the delete
\* returned.
C2_Witness ==
  /\ Done("delete") /\ QueryFoundNothing
  /\ responses[1].fromStore
  /\ responses[1].body.result = Some(<<>>)
  /\ outcome = Return(FALSE)

\* C3: against an upstream that stores a record on an acknowledged create,
\* once createCustomHostname(h) has returned true, a later
\* getCustomHostnameStatus(h) with no deleteCustomHostname(h) called in
\* between never returns not_found.
C3_CreatedIsFound ==
  (transport = "zone" /\ Done("getStatus") /\ acked[call.hostname] = "created")
    => /\ outcome.kind = "returned"
       /\ Returned.status # "not_found"

\* C3 witness: the status of an acknowledged hostname was queried and the
\* stored record came back.
C3_Witness ==
  /\ transport = "zone" /\ Done("getStatus") /\ acked[call.hostname] = "created"
  /\ QueryFoundRecord
  /\ Returned.status = "pending"

----------------------------------------------------------------------------
(* Messages, as the properties name them *)

SanitizedMessage ==
  "Custom domains require additional setup. Please contact the platform administrator."

UpperCase == "ABCDEFGHIJKLMNOPQRSTUVWXYZ"
LowerCase == "abcdefghijklmnopqrstuvwxyz"

LowerChar(c) ==
  IF \E i \in 1..Len(UpperCase) : SubSeq(UpperCase, i, i) = c
  THEN LET i == CHOOSE i \in 1..Len(UpperCase) : SubSeq(UpperCase, i, i) = c
       IN SubSeq(LowerCase, i, i)
  ELSE c

RECURSIVE Lower(_)
Lower(s) ==
  IF Len(s) = 0 THEN s
  ELSE LowerChar(SubSeq(s, 1, 1)) \o Lower(SubSeq(s, 2, Len(s)))

\* The message mentions authorization or authentication, in any capitalisation.
MentionsAuth(m) ==
  Includes(Lower(m), "authorization") \/ Includes(Lower(m), "authentication")

\* The query was answered with a non-success envelope that carries a first
\* error message (a non-empty string).
QueryRefusedWithMessage ==
  /\ QueryEnvelope
  /\ ~(responses[1].status \in 200..299) \/ ~responses[1].body.success
  /\ responses[1].body.errors # None
  /\ responses[1].body.errors # Some(<<>>)
  /\ responses[1].body.errors[1][1].messageType = "string"
  /\ responses[1].body.errors[1][1].message # ""
FirstMessage == responses[1].body.errors[1][1].message

----------------------------------------------------------------------------
\* C4: whenever the upstream answers the hostname query with HTTP 403,
\* getCustomHostnameStatus returns status error with exactly the one
\* sanitized message as verification errors, whatever the body of the 403.
C4_ForbiddenIsSanitized ==
  (Done("getStatus") /\ QueryAnswered /\ responses[1].status = 403)
    => /\ outcome.kind = "returned"
       /\ Returned.status = "error"
       /\ Returned.verification_errors = Some(<<SanitizedMessage>>)

\* C5: for every non-success response whose first error message mentions
\* authorization or authentication, whatever the capitalisation,
\* getCustomHostnameStatus returns the sanitized message and never the raw
\* upstream message in the verification errors.
C5_AuthMessagesAreSanitized ==
  (Done("getStatus") /\ QueryRefusedWithMessage /\ MentionsAuth(FirstMessage))
    => /\ outcome.kind = "returned"
       /\ Returned.status = "error"
       /\ Returned.verification_errors = Some(<<SanitizedMessage>>)

\* C6: createCustomHostname, getCustomHostnameStatus and deleteCustomHostname
\* never raise: every finished invocation has returned, a boolean from create
\* and delete and a status record from getStatus.
C6_NeverRaises ==
  /\ outcome.kind # "threw"
  /\ pc = "done" =>
       /\ outcome.kind = "returned"
       /\ call.fn \in {"create", "delete"} => (Returned = TRUE \/ Returned = FALSE)
       /\ call.fn = "getStatus" =>
            DOMAIN Returned = {"status", "ssl", "verification_errors"}

\* C6 witness: a body that does not parse as JSON was received and the
\* invocation returned a status record.
C6_Witness ==
  /\ Done("getStatus") /\ QueryAnswered
  /\ responses[1].body.type = "unparseable"
  /\ outcome.kind = "returned"
  /\ Returned.status = "error"

\* C7: createCustomHostname returns true if and only if the API is
\* configured and its single creation request completed with a 2xx status;
\* otherwise (transport failure, non-2xx, missing configuration) it returns
\* false.
C7_CreateTrueIffAcknowledged ==
  Done("create")
    => /\ outcome.kind = "returned"
       /\ Returned = TRUE \/ Returned = FALSE
       /\ Returned = TRUE <=>
            /\ Configured
            /\ Len(requests) = 1 /\ requests[1].method = "POST"
            /\ Len(responses) = 1
            /\ responses[1].status \in 200..299

\* C7 witness: a creation request was acknowledged and create returned true.
C7_Witness ==
  /\ Done("create") /\ Returned = TRUE
  /\ Len(responses) = 1 /\ responses[1].status = 201

\* C8: when the zone id is missing or no API token is available no operation
\* issues an upstream request; getCustomHostnameStatus returns status error
\* with verification errors ['API not configured'], createCustomHostname and
\* deleteCustomHostname return false.
C8_UnconfiguredIssuesNothing ==
  ~Configured
    => /\ requests = <<>> /\ responses = <<>>
       /\ pc \in {"idle", "done"}
       /\ Done("getStatus") =>
            /\ outcome.kind = "returned"
            /\ Returned.status = "error"
            /\ Returned.ssl = None
            /\ Returned.verification_errors = Some(<<"API not configured">>)
       /\ (Done("create") \/ Done("delete")) => outcome = Return(FALSE)

\* C8 witness: the zone id is set, no token is, and a status query returned.
C8_Witness ==
  /\ env.CLOUDFLARE_ZONE_ID # ""
  /\ env.CLOUDFLARE_API_TOKEN = "" /\ env.DISPATCH_NAMESPACE_API_TOKEN = ""
  /\ Done("getStatus")
  /\ Returned.status = "error"

\* C9: the status of every record getCustomHostnameStatus returns is one of
\* pending, active, error, not_found, whatever status the upstream record
\* carries.
C9_StatusIsClosed ==
  Done("getStatus")
    => /\ outcome.kind = "returned"
       /\ Returned.status \in {"pending", "active", "error", "not_found"}

\* C10: for a success response whose first record has an ssl block, the
\* returned validation method is the record's ssl.method when present and
\* otherwise its ssl.validation_method, and absent validation_errors,
\* validation_records and verification_errors come back as empty sequences,
\* never absent.
C10_SslNormalized ==
  (Done("getStatus") /\ QueryFoundRecord /\ FirstRecord.ssl # None)
    => /\ outcome.kind = "returned"
       /\ Returned.ssl # None
       /\ FirstRecord.ssl[1].method # None =>
            Returned.ssl[1].validation_method = FirstRecord.ssl[1].method
       /\ FirstRecord.ssl[1].method = None =>
            Returned.ssl[1].validation_method = FirstRecord.ssl[1].validation_method
       /\ (FirstRecord.ssl[1].method = Some("http")
             /\ FirstRecord.ssl[1].validation_method = None) =>
            Returned.ssl[1].validation_method = Some("http")
       /\ FirstRecord.ssl[1].validation_errors = None =>
            Returned.ssl[1].validation_errors = <<>>
       /\ FirstRecord.ssl[1].validation_errors # None =>
            Returned.ssl[1].validation_errors = FirstRecord.ssl[1].validation_errors[1]
       /\ FirstRecord.ssl[1].validation_records = None =>
            Returned.ssl[1].validation_records = <<>>
       /\ FirstRecord.ssl[1].validation_records # None =>
            Returned.ssl[1].validation_records = FirstRecord.ssl[1].validation_records[1]
       /\ Returned.verification_errors # None
       /\ FirstRecord.verification_errors = None =>
            Returned.verification_errors = Some(<<>>)

\* C10 witness: the first record carried ssl.method = "http", no
\* validation_method and no arrays, and the normalized record came back.
C10_Witness ==
  /\ Done("getStatus") /\ QueryFoundRecord /\ FirstRecord.ssl # None
  /\ FirstRecord.ssl[1].method = Some("http")
  /\ FirstRecord.ssl[1].validation_method = None
  /\ FirstRecord.ssl[1].validation_errors = None
  /\ FirstRecord.verification_errors = None
  /\ Returned.ssl[1].validation_method = Some("http")

----------------------------------------------------------------------------
\* C11: no operation retries: an invocation of createCustomHostname issues at
\* most one creation request, of getCustomHostnameStatus at most one query,
\* of deleteCustomHostname at most one lookup followed by at most one DELETE,
\* the DELETE never preceding the lookup.
C11_NoRetry ==
  /\ call.fn = "none" => requests = <<>>
  /\ call.fn = "create" =>
       /\ Len(requests) <= 1
       /\ \A i \in 1..Len(requests) : requests[i].method = "POST"
  /\ call.fn = "getStatus" =>
       /\ Len(requests) <= 1
       /\ \A i \in 1..Len(requests) : requests[i].method = "GET"
  /\ call.fn = "delete" =>
       /\ Len(requests) <= 2
       /\ Len(requests) >= 1 => requests[1].method = "GET"
       /\ Len(requests) = 2 => requests[2].method = "DELETE"
       /\ Len(requests) = 2 => Len(responses) >= 1
  /\ Len(responses) <= Len(requests)

\* C11 witness: a delete ran its lookup and then its DELETE, and the
\* transport failed on the DELETE.
C11_Witness ==
  /\ Done("delete")
  /\ Len(requests) = 2 /\ requests[2].method = "DELETE"
  /\ Len(responses) = 1
  /\ outcome = Return(FALSE)

\* C12: on every path of the three operations, the body of every upstream
\* response received has been fully read or cancelled by the time the
\* operation returns.
C12_BodiesDrained ==
  pc = "done" =>
    \A i \in 1..Len(responses) : responses[i].bodyState \in {"read", "cancelled"}

\* The zone answered the status query from the records it holds.
ZoneListed ==
  /\ transport = "zone" /\ QueryAnswered
  /\ responses[1].fromStore
  /\ responses[1].status = 200

\* C13: once deleteCustomHostname(h) has returned true, the next
\* getCustomHostnameStatus(h) with no createCustomHostname(h) called in
\* between returns not_found, whatever the status of the hostname was.
C13_DeletedIsNotFound ==
  (Done("getStatus") /\ ZoneListed
     /\ acked[call.hostname] \in {"deleted", "deletedFirst"})
    => Returned.status = "not_found"

\* C13 as amended: the same, when the lookup of that delete had listed
\* exactly one record for the hostname.
C13_SoleRecordDeletedIsNotFound ==
  (Done("getStatus") /\ ZoneListed /\ acked[call.hostname] = "deleted")
    => /\ Returned.status = "not_found"
       /\ Returned.ssl = None

\* C13 witness: the sole record of a hostname was deleted and its status
\* queried.
C13_Witness ==
  /\ Done("getStatus") /\ ZoneListed /\ acked[call.hostname] = "deleted"
  /\ Returned.status = "not_found"

----------------------------------------------------------------------------
(* The provisioning run: bounds and input domains *)

\* Most provisioning runs made one after the other against the same account.
MaxRuns == 2

\* The two SetupManager scripts, the TypeScript one and scripts/setup.js,
\* and scripts/setup-quick.js in its version that creates routes.
Variants == {"ts", "js", "quick"}

UserToken == "user-token"
MintedToken == "minted-token"

\* How the run authenticates: an API token, a global key with its e-mail,
\* or (scripts/setup-quick.js only) nothing.
AuthMethods == {"token", "key", "none"}

\* What the operator answers at the custom-domain prompt ("" = none).
CustomDomains == {"", "platform.com", "a.b.c.com"}

\* What the operator answers at the zone-id prompt ("" = nothing).
ZoneIdAnswers == {"", "zone-typed"}

\* The zones an account may hold.
ZoneSets == {{}, {"platform.com", "c.com"}}

ZoneIdOf(zoneName) == "id-of-" \o zoneName

namespaceName == "workers-platform-template"
workerName == "workers-platform-template"
NamespaceIdHeld == "ns-held"
NamespaceIdNew == "ns-new"

HttpForbidden == 403
CodeNoWfpAccess == 10121
CodeOther == 10000

MsgAlreadyExists == "A namespace with this name already exists"
MsgOther == "Internal error"

----------------------------------------------------------------------------
(* String helpers (String.prototype.split('.'), Array.prototype.slice/join) *)

RECURSIVE SplitFrom(_, _, _)
\* The parts of s from position i on, piece being the part read so far.
SplitFrom(s, i, piece) ==
  IF i > Len(s) THEN <<piece>>
  ELSE IF SubSeq(s, i, i) = "." THEN <<piece>> \o SplitFrom(s, i + 1, "")
  ELSE SplitFrom(s, i + 1, piece \o SubSeq(s, i, i))

Split(s) == SplitFrom(s, 1, "")

RECURSIVE Join(_)
Join(parts) ==
  IF Len(parts) = 0 THEN ""
  ELSE IF Len(parts) = 1 THEN parts[1]
  ELSE parts[1] \o "." \o Join(Tail(parts))

\* domainParts.slice(i) for a 0-based i
SliceFrom(parts, i) == SubSeq(parts, i + 1, Len(parts))

\* zoneName of loop round i: domainParts.slice(i).join('.')
zoneNameAt(customDomain, i) == Join(SliceFrom(Split(customDomain), i))

\* detectLoopRuns going on to the last label: i < domainParts.length
detectLoopRunsToLastLabel(customDomain, i) == i < Len(Split(customDomain))

\* i < domainParts.length - 1
detectLoopRuns(customDomain, i) == i < Len(Split(customDomain)) - 1

----------------------------------------------------------------------------
(* The requests of a provisioning run *)

SetupRequest(method, resource, name) ==
  [method |-> method, resource |-> resource, name |-> name]

VerifyRequest == SetupRequest("GET", "user/tokens/verify", "")
AccountRequest == SetupRequest("GET", "accounts", "")
ZoneQuery(zoneName) == SetupRequest("GET", "zones", zoneName)
NamespaceListRequest == SetupRequest("GET", "dispatch/namespaces", "")
NamespaceCreateRequest == SetupRequest("POST", "dispatch/namespaces", namespaceName)
MintRequest == SetupRequest("POST", "user/tokens", "")
RouteListRequest == SetupRequest("GET", "workers/routes", "")
RouteCreateRequest(pattern) == SetupRequest("POST", "workers/routes", pattern)

\* The two routes of a custom domain, in the order the scripts handle them.
routePatterns(customDomain) == <<customDomain \o "/*", "*." \o customDomain \o "/*">>
Route(pattern) == [pattern |-> pattern, script |-> workerName]

\* Requests that create a resource upstream.
Creates(request) == request.method = "POST"

----------------------------------------------------------------------------
(* What the account answers *)

ZoneEntry(zoneName) == [id |-> ZoneIdOf(zoneName), name |-> zoneName]
NamespaceEntry(id) == [id |-> id, name |-> namespaceName]
OtherNamespace == [id |-> "ns-other", name |-> "another-namespace"]
MintedEntry == [id |-> "token-id", value |-> Some(MintedToken)]
ValuelessEntry == [id |-> "token-id", value |-> None]

Granted(body) == Fulfilled(Response(200, body, TRUE))
Denied(status, code, message) ==
  Fulfilled(Response(status, Envelope(FALSE, None, Some(<<ApiError(code, message)>>)), TRUE))

\* An account that answers from what it holds; acct.mode = "account".
AccountAnswer(request, acct) ==
  IF request = VerifyRequest
  THEN Answer(IF acct.tokenValid
              THEN Granted(Envelope(TRUE, Some([status |-> "active"]), None))
              ELSE Denied(401, 1000, "Invalid API Token"), acct)
  ELSE IF request = AccountRequest
  THEN Answer(IF acct.tokenValid
              THEN Granted(Envelope(TRUE, Some([name |-> "Account"]), None))
              ELSE Denied(HttpForbidden, CodeOther, MsgAuthenticationError), acct)
  ELSE IF request.resource = "zones"
  THEN Answer(IF ~acct.tokenValid
              THEN Denied(HttpForbidden, CodeOther, MsgAuthenticationError)
              ELSE IF request.name \in acct.zones
              THEN Granted(Envelope(TRUE, Some(<<ZoneEntry(request.name)>>), None))
              ELSE Granted(Envelope(TRUE, Some(<<>>), None)), acct)
  ELSE IF request = NamespaceListRequest
  THEN Answer(IF acct.tokenValid /\ acct.canList
              THEN Granted(Envelope(TRUE, Some(acct.namespaces), None))
              ELSE Denied(HttpForbidden, CodeNoWfpAccess, "No access to dispatch namespaces"), acct)
  ELSE IF request = NamespaceCreateRequest
  THEN IF ~(acct.tokenValid /\ acct.canList)
       THEN Answer(Denied(HttpForbidden, CodeNoWfpAccess, "No access to dispatch namespaces"), acct)
       ELSE IF \E k \in 1..Len(acct.namespaces) : acct.namespaces[k].name = namespaceName
       THEN Answer(Denied(409, CodeOther, MsgAlreadyExists), acct)
       ELSE Answer(Granted(Envelope(TRUE, Some(NamespaceEntry(NamespaceIdNew)), None)),
                   [acct EXCEPT !.namespaces = Append(@, NamespaceEntry(NamespaceIdNew))])
  ELSE IF request = MintRequest
  THEN IF acct.tokenValid /\ acct.canMint
       THEN Answer(Granted(Envelope(TRUE, Some(MintedEntry), None)),
                   [acct EXCEPT !.minted = @ + 1])
       ELSE Answer(Denied(HttpForbidden, CodeOther, MsgAuthenticationError), acct)
  ELSE IF request = RouteListRequest
  THEN Answer(IF acct.tokenValid
              THEN Granted(Envelope(TRUE, Some(acct.routes), None))
              ELSE Denied(HttpForbidden, CodeOther, MsgAuthenticationError), acct)
  ELSE \* a route create
       IF ~acct.tokenValid
       THEN Answer(Denied(HttpForbidden, CodeOther, MsgAuthenticationError), acct)
       ELSE IF \E k \in 1..Len(acct.routes) : acct.routes[k].pattern = request.name
       THEN Answer(Denied(409, CodeOther, "Duplicate route"), acct)
       ELSE Answer(Granted(Envelope(TRUE, Some(Route(request.name)), None)),
                   [acct EXCEPT !.routes = Append(@, Route(request.name))])

\* A scripted transport: the envelopes and statuses that tell the branches
\* of each handler apart.
ScriptedBodies(request) ==
  {UnparseableBody, NullBody,
   Envelope(FALSE, None, Some(<<ApiError(CodeOther, MsgOther)>>))}
  \cup
  (IF request.resource = "zones"
   THEN {Envelope(TRUE, Some(<<>>), None),
         Envelope(TRUE, None, None),
         Envelope(TRUE, Some(<<ZoneEntry(request.name)>>), None),
         Envelope(FALSE, Some(<<ZoneEntry(request.name)>>), None)}
   ELSE IF request = NamespaceListRequest
   THEN {Envelope(TRUE, Some(<<>>), None),
         Envelope(TRUE, None, None),
         Envelope(TRUE, Some(<<OtherNamespace, NamespaceEntry(NamespaceIdHeld)>>), None),
         Envelope(FALSE, None, Some(<<ApiError(CodeNoWfpAccess, MsgOther)>>))}
   ELSE IF request = NamespaceCreateRequest
   THEN {Envelope(TRUE, Some(NamespaceEntry(NamespaceIdNew)), None),
         Envelope(TRUE, None, None),
         Envelope(FALSE, None, Some(<<ApiError(CodeOther, MsgAlreadyExists)>>))}
   ELSE IF request = MintRequest
   THEN {Envelope(TRUE, Some(MintedEntry), None),
         Envelope(TRUE, Some(ValuelessEntry), None),
         Envelope(TRUE, None, None)}
   ELSE IF request = RouteListRequest
   THEN {Envelope(TRUE, Some(<<>>), None),
         Envelope(TRUE, None, None),
         Envelope(TRUE, Some(<<Route(routePatterns("platform.com")[1])>>), None)}
   ELSE {Envelope(TRUE, Some([name |-> "Account"]), None)})

ScriptedStatuses == {200, HttpForbidden, 500}

\* What an awaited fetch of the run may settle to, with the account it leaves.
SetupAnswers(request, acct) ==
  {Answer(Rejected, [acct EXCEPT !.dropped = acct.mode = "account"])}
  \cup
  (IF acct.mode = "account"
   THEN {AccountAnswer(request, acct)}
   ELSE {Answer(Fulfilled(Response(status, body, FALSE)), acct) :
           status \in ScriptedStatuses, body \in ScriptedBodies(request)})

----------------------------------------------------------------------------
(* The handlers of a provisioning run, one per awaited request *)

Log(level, about) == [level |-> level, about |-> about]

\* await response.json() rejects, or a field of the JSON value null is read.
Unreadable(fetched) ==
  fetched.rejected \/ fetched.response[1].body.type # "object"

\* data.errors?.some(e => e.code === code)
hasErrorCode(data, code) ==
  data.errors # None /\ \E k \in 1..Len(data.errors[1]) : data.errors[1][k].code = code

\* data.errors?.some(e => e.message?.includes(text))
hasErrorMessage(data, text) ==
  data.errors # None /\ \E k \in 1..Len(data.errors[1]) : Includes(data.errors[1][k].message, text)

\* verifyThrows testing response.ok alone.
verifyThrowsStatusOnly(fetched) ==
  \/ Unreadable(fetched)
  \/ ~Ok(fetched.response[1].status)

\* validateCredentials, first request: does it throw?  A rejected fetch, an
\* unparseable body, !response.ok, or !data.success (reading data.success or
\* data.errors of null throws as well).
verifyThrows(fetched) ==
  \/ Unreadable(fetched)
  \/ ~Ok(fetched.response[1].status)
  \/ ~fetched.response[1].body.success

\* validateCredentials, second request (account info): it throws only when
\* the fetch rejects or the body cannot be read; a refusal is ignored.
accountInfoThrows(fetched) == Unreadable(fetched)

\* detectZoneForDomain / detectZoneId, one round of the loop:
\* data.success && data.result && data.result.length > 0
zoneFound(fetched) ==
  /\ ~Unreadable(fetched)
  /\ fetched.response[1].body.success
  /\ fetched.response[1].body.result # None
  /\ Len(fetched.response[1].body.result[1]) > 0

\* checkWorkersForPlatformsAccess: the branch taken, as the line it logs.
accessProbe(fetched) ==
  IF fetched.rejected \/ fetched.response[1].body.type = "unparseable"
  THEN "could-not-check"
  ELSE LET response == fetched.response[1]
           data == response.body
       IN IF response.status = HttpForbidden THEN "not-enabled"
          ELSE IF data.type = "null" THEN "could-not-check"
          ELSE IF hasErrorCode(data, CodeNoWfpAccess) THEN "not-enabled"
          ELSE IF Ok(response.status) THEN "available"
          ELSE "could-not-verify"

\* config after checkWorkersForPlatformsAccess
checkWorkersForPlatformsAccess(cfg, fetched) ==
  IF accessProbe(fetched) = "available"
  THEN [cfg EXCEPT !.wfpAvailable = Some(TRUE),
                   !.existingNamespaces = Some(orEmpty(fetched.response[1].body.result))]
  ELSE [cfg EXCEPT !.wfpAvailable = Some(FALSE)]

\* existingNamespace finding nothing: the create is issued unchecked.
existingNamespaceUnchecked(cfg) == None

\* this.config.existingNamespaces?.find(ns => ns.name === namespaceName)
existingNamespace(cfg) ==
  IF cfg.existingNamespaces = None THEN None
  ELSE LET held == cfg.existingNamespaces[1]
           at == {k \in 1..Len(held) : held[k].name = namespaceName}
       IN IF at = {} THEN None
          ELSE Some(held[CHOOSE k \in at : \A j \in at : k <= j])

\* ensureDispatchNamespace before its request: "skipped", "reused" or "create".
namespacePlan(cfg) ==
  IF cfg.wfpAvailable # Some(TRUE) THEN "skipped"
  ELSE IF existingNamespace(cfg) # None THEN "reused"
  ELSE "create"

\* ensureDispatchNamespace after its create request: the branch taken.
namespaceCreated(variant, fetched) ==
  IF Unreadable(fetched) THEN "failed"
  ELSE LET response == fetched.response[1]
           data == response.body
       IN IF Ok(response.status) /\ data.success /\ data.result # None THEN "created"
          ELSE IF Ok(response.status) /\ data.success /\ variant = "js" THEN "failed"
          ELSE IF hasErrorMessage(data, "already exists") THEN "exists"
          ELSE "failed"

\* tokenProbeOk holding for no answer: a token is minted whatever the probe says.
tokenProbeOkNever(fetched) == FALSE

\* ensureDispatchToken after its probe: testResponse.ok (the body is not read)
tokenProbeOk(fetched) == ~fetched.rejected /\ Ok(fetched.response[1].status)

\* ensureDispatchToken after its mint request:
\* tokenResponse.ok && tokenData.success && tokenData.result?.value
mintSucceeded(fetched) ==
  /\ ~Unreadable(fetched)
  /\ Ok(fetched.response[1].status)
  /\ fetched.response[1].body.success
  /\ fetched.response[1].body.result # None
  /\ fetched.response[1].body.result[1].value # None

\* setupCustomDomainRoutes of scripts/setup.js: createResponse.ok && createData.success
routeCreated(fetched) ==
  /\ ~Unreadable(fetched)
  /\ Ok(fetched.response[1].status)
  /\ fetched.response[1].body.success

\* routeExists finding no route: every pattern is created again.
routeExistsNever(existingRoutes, pattern) == FALSE

\* existingRoutes.some(r => r.pattern === pattern)
routeExists(existingRoutes, pattern) ==
  \E k \in 1..Len(existingRoutes) : existingRoutes[k].pattern = pattern

----------------------------------------------------------------------------
(* The provisioning run: control flow *)

\* What the operator typed: the inputs of a run.
Inputs(cfg) == <<cfg.variant, cfg.authMethod, cfg.customDomain, cfg.typedZoneId>>

At(at, i) == [at |-> at, i |-> i, existingRoutes |-> <<>>]

\* setupResources of scripts/setup.js: routes only with a domain and a zone id
\* (the TypeScript script has no such step).
afterToken(cfg) ==
  IF cfg.variant = "js" /\ cfg.customDomain # "" /\ cfg.zoneId # ""
  THEN "routeList" ELSE "generateEnv"

\* setupResources: ensureDispatchToken is unconditional in the TypeScript
\* script and for token authentication only in scripts/setup.js.
afterNamespace(cfg) ==
  IF cfg.variant = "ts" \/ cfg.authMethod = "token" THEN "tokenProbe" ELSE afterToken(cfg)

\* The stages that await a fetch, and the request each issues.
Awaiting ==
  {"detectZone", "verify", "accountInfo", "probe", "createNamespace",
   "tokenProbe", "mint", "routeList", "routeCreate"}

RequestOf(at, i, cfg) ==
  CASE at = "detectZone" -> ZoneQuery(zoneNameAt(cfg.customDomain, i))
    [] at = "verify" -> VerifyRequest
    [] at = "accountInfo" -> AccountRequest
    [] at = "probe" -> NamespaceListRequest
    [] at = "createNamespace" -> NamespaceCreateRequest
    [] at = "tokenProbe" -> NamespaceListRequest
    [] at = "mint" -> MintRequest
    [] at = "routeList" -> RouteListRequest
    [] at = "routeCreate" -> RouteCreateRequest(routePatterns(cfg.customDomain)[i])

\* Move to a stage, issuing its request if it has one.
Goto(to, cfg) ==
  /\ step' = to
  /\ sent' = IF to.at \in Awaiting THEN Append(sent, RequestOf(to.at, to.i, cfg)) ELSE sent

\* The fetch awaited at a stage settles.
Settles(a) ==
  /\ account' = a.store
  /\ reply' = Some([n |-> Len(sent), to |-> sent[Len(sent)], fetched |-> a.fetched])

\* setup(): the catch block logs the failure and calls process.exit(1).
Abort(cfg) ==
  /\ config' = cfg
  /\ step' = At("aborted", 0)
  /\ console' = Append(console, Log("red", "setup-failed"))
  /\ exitCode' = Some(1)
  /\ UNCHANGED <<sent, disk, history>>

\* Carry on with the run.
Proceed(to, cfg, logged) ==
  /\ config' = cfg
  /\ Goto(to, cfg)
  /\ console' = console \o logged
  /\ UNCHANGED <<disk, exitCode>>

\* The stage reached once the zone id is settled (detected or typed).
\* collectUserConfig of the TypeScript script: detection first, the prompt
\* only if it found nothing.
zonePrompt(cfg) ==
  IF cfg.zoneId = "" THEN [cfg EXCEPT !.zoneId = cfg.typedZoneId] ELSE cfg

\* The credentials a run may hold ("" = unset): typed at the prompts of the
\* SetupManager scripts, read from the environment by scripts/setup-quick.js.
Credentials ==
  [apiToken : {"", UserToken}, apiKey : {"", "global-key"}, apiEmail : {"", "ops@platform.com"}]

BearerHeaders(apiToken) ==
  {<<"Authorization", "Bearer " \o apiToken>>, <<"Content-Type", "application/json">>}
KeyHeaders(apiKey, apiEmail) ==
  {<<"X-Auth-Key", apiKey>>, <<"X-Auth-Email", apiEmail>>,
   <<"Content-Type", "application/json">>}

\* getAuthHeaders of the SetupManager scripts: by config.authMethod.
setupAuthHeaders(authMethod, credentials) ==
  IF authMethod = "token" THEN BearerHeaders(credentials.apiToken)
  ELSE KeyHeaders(credentials.apiKey, credentials.apiEmail)

\* quickAuthHeaders trying the key and e-mail before the token.
quickAuthHeadersKeyFirst(credentials) ==
  IF credentials.apiKey # "" /\ credentials.apiEmail # ""
  THEN Some(KeyHeaders(credentials.apiKey, credentials.apiEmail))
  ELSE IF credentials.apiToken # "" THEN Some(BearerHeaders(credentials.apiToken))
  ELSE None

\* getAuthHeaders of scripts/setup-quick.js: the header set, or null.
quickAuthHeaders(credentials) ==
  IF credentials.apiToken # "" THEN Some(BearerHeaders(credentials.apiToken))
  ELSE IF credentials.apiKey # "" /\ credentials.apiEmail # ""
  THEN Some(KeyHeaders(credentials.apiKey, credentials.apiEmail))
  ELSE None

\* The header set a run attaches to its requests (None: it has none).
headersOf(cfg) ==
  IF cfg.variant = "quick" THEN quickAuthHeaders(cfg.credentials)
  ELSE Some(setupAuthHeaders(cfg.authMethod, cfg.credentials))

\* The credentials a run of a script may start with.  collectUserConfig of
\* the SetupManager scripts insists on the token, or on the key and e-mail,
\* of the chosen method and asks for nothing else; scripts/setup-quick.js
\* takes what the environment holds (authMethod names what it resolves to).
CredentialsOf(variant, authMethod, c) ==
  IF variant = "quick"
  THEN authMethod = (IF c.apiToken # "" THEN "token"
                     ELSE IF c.apiKey # "" /\ c.apiEmail # "" THEN "key" ELSE "none")
  ELSE IF authMethod = "token"
  THEN c.apiToken # "" /\ c.apiKey = "" /\ c.apiEmail = ""
  ELSE authMethod = "key" /\ c.apiToken = "" /\ c.apiKey # "" /\ c.apiEmail # ""

----------------------------------------------------------------------------
(* The provisioning run: one action per awaited step *)

\* A fresh process: main() -> new SetupManager().setup() -> collectUserConfig.
\* In the TypeScript script a custom domain starts zone detection at once;
\* scripts/setup.js asks for the zone id.  A scripted transport holds nothing
\* from one run to the next, so only an account is provisioned again.
SetupStart(variant, authMethod, credentials, customDomain, typedZoneId) ==
  /\ step.at \in {"idle", "done", "aborted"}
  /\ history.run < MaxRuns
  /\ history.run > 0 => account.mode = "account"
  /\ variant = "ts" => authMethod = "token"
  /\ CredentialsOf(variant, authMethod, credentials)
  /\ customDomain = "" => typedZoneId = ""
  /\ LET typed == [NoConfig EXCEPT !.variant = variant, !.authMethod = authMethod,
                                   !.customDomain = customDomain,
                                   !.typedZoneId = typedZoneId,
                                   !.credentials = credentials]
         detects == variant = "ts" /\ customDomain # "" /\ detectLoopRuns(customDomain, 0)
         cfg == IF detects THEN typed ELSE zonePrompt(typed)
         first == IF variant = "quick" THEN "ensureNamespace"
                  ELSE IF detects THEN "detectZone" ELSE "verify"
     IN /\ config' = cfg
        /\ step' = At(first, 0)
        /\ sent' = IF first \in Awaiting THEN <<RequestOf(first, 0, cfg)>> ELSE <<>>
        /\ history' = [history EXCEPT !.run = @ + 1,
                                      !.afterCompleted = exitCode = Some(0),
                                      !.sameInputs = Inputs(config) = Inputs(typed),
                                      !.probeDenied = FALSE,
                                      !.cli = None]
  /\ console' = <<>>
  /\ disk' = [disk EXCEPT !.envWritten = FALSE, !.wranglerWritten = FALSE,
                          !.routesWritten = FALSE, !.zoneIdWritten = FALSE,
                          !.tokenWritten = None]
  /\ exitCode' = None
  /\ reply' = None
  /\ UNCHANGED account
  /\ UNCHANGED besidesSetup

\* detectZoneForDomain: one round of the loop.  A match ends it with the
\* zone's id; an exception ends it with a warning; otherwise the next suffix
\* is tried while more than one label is left.
DetectZoneSettles ==
  /\ step.at = "detectZone"
  /\ \E a \in SetupAnswers(sent[Len(sent)], account) :
    /\ Settles(a)
    /\ IF Unreadable(a.fetched)
       THEN Proceed(At("verify", 0), zonePrompt(config), <<Log("yellow", "zone-detection-failed")>>)
       ELSE IF zoneFound(a.fetched)
       THEN Proceed(At("verify", 0),
                    [config EXCEPT !.zoneId = a.fetched.response[1].body.result[1][1].id],
                    <<Log("green", "zone-found")>>)
       ELSE IF detectLoopRuns(config.customDomain, step.i + 1)
       THEN Proceed(At("detectZone", step.i + 1), config, <<>>)
       ELSE Proceed(At("verify", 0), zonePrompt(config), <<Log("yellow", "zone-not-detected")>>)
    /\ UNCHANGED history
  /\ UNCHANGED besidesSetup

\* validateCredentials, the token verification.
VerifySettles ==
  /\ step.at = "verify"
  /\ \E a \in SetupAnswers(sent[Len(sent)], account) :
    /\ Settles(a)
    /\ IF verifyThrows(a.fetched)
       THEN Abort(config)
       ELSE /\ Proceed(At("accountInfo", 0), config, <<Log("green", "credentials-validated")>>)
            /\ UNCHANGED history
  /\ UNCHANGED besidesSetup

\* validateCredentials, the account lookup; on success setupResources starts
\* with checkWorkersForPlatformsAccess.
AccountInfoSettles ==
  /\ step.at = "accountInfo"
  /\ \E a \in SetupAnswers(sent[Len(sent)], account) :
    /\ Settles(a)
    /\ IF accountInfoThrows(a.fetched)
       THEN Abort(config)
       ELSE /\ Proceed(At("probe", 0), config, <<>>)
            /\ UNCHANGED history
  /\ UNCHANGED besidesSetup

\* History: the answer is HTTP 403 or carries an error of code 10121.
AccessDenied(fetched) ==
  /\ ~fetched.rejected
  /\ \/ fetched.response[1].status = HttpForbidden
     \/ /\ fetched.response[1].body.type = "object"
        /\ hasErrorCode(fetched.response[1].body, CodeNoWfpAccess)

\* checkWorkersForPlatformsAccess, then ensureDispatchNamespace up to its
\* own request.
ProbeSettles ==
  /\ step.at = "probe"
  /\ \E a \in SetupAnswers(sent[Len(sent)], account) :
    /\ Settles(a)
    /\ LET cfg == checkWorkersForPlatformsAccess(config, a.fetched)
           probed == Log(IF accessProbe(a.fetched) = "available" THEN "green" ELSE "yellow",
                         "wfp-" \o accessProbe(a.fetched))
           plan == namespacePlan(cfg)
       IN IF plan = "skipped"
          THEN Proceed(At(afterNamespace(cfg), 0), cfg,
                       <<probed, Log("yellow", "namespace-skipped")>>)
          ELSE IF plan = "reused"
          THEN Proceed(At(afterNamespace(cfg), 0),
                       [cfg EXCEPT !.dispatchNamespaceId = Some(existingNamespace(cfg)[1].id)],
                       <<probed, Log("green", "namespace-exists")>>)
          ELSE Proceed(At("createNamespace", 0), cfg, <<probed>>)
    /\ history' = [history EXCEPT !.probeDenied = AccessDenied(a.fetched)]
  /\ UNCHANGED besidesSetup

\* ensureDispatchNamespace, the create request.
NamespaceCreateSettles ==
  /\ step.at = "createNamespace"
  /\ \E a \in SetupAnswers(sent[Len(sent)], account) :
    /\ Settles(a)
    /\ LET branch == namespaceCreated(config.variant, a.fetched)
           cfg == IF branch = "created"
                  THEN [config EXCEPT !.dispatchNamespaceId =
                                         Some(a.fetched.response[1].body.result[1].id)]
                  ELSE config
       IN /\ Proceed(At(afterNamespace(cfg), 0), cfg,
                     <<Log(IF branch = "failed" THEN "yellow" ELSE "green",
                           "namespace-" \o branch)>>)
          /\ history' = [history EXCEPT !.created = IF branch = "created" THEN @ + 1 ELSE @]
  /\ UNCHANGED besidesSetup

\* ensureDispatchToken, the probe: a listing that succeeds keeps the token.
TokenProbeSettles ==
  /\ step.at = "tokenProbe"
  /\ \E a \in SetupAnswers(sent[Len(sent)], account) :
    /\ Settles(a)
    /\ LET kept == [config EXCEPT !.dispatchToken = Some(UserToken)]
       IN IF a.fetched.rejected
          THEN Proceed(At(afterToken(kept), 0), kept, <<Log("yellow", "token-error")>>)
          ELSE IF tokenProbeOk(a.fetched)
          THEN Proceed(At(afterToken(kept), 0), kept, <<Log("green", "token-has-permissions")>>)
          ELSE Proceed(At("mint", 0), config, <<>>)
    /\ UNCHANGED history
  /\ UNCHANGED besidesSetup

\* ensureDispatchToken, the mint request.
MintSettles ==
  /\ step.at = "mint"
  /\ \E a \in SetupAnswers(sent[Len(sent)], account) :
    /\ Settles(a)
    /\ LET kept == [config EXCEPT !.dispatchToken = Some(UserToken)]
           minted == [config EXCEPT
                        !.dispatchToken = a.fetched.response[1].body.result[1].value,
                        !.createdToken = TRUE]
       IN IF mintSucceeded(a.fetched)
          THEN Proceed(At(afterToken(minted), 0), minted, <<Log("green", "token-created")>>)
          ELSE Proceed(At(afterToken(kept), 0), kept,
                       <<Log("yellow", IF Unreadable(a.fetched) THEN "token-error"
                                       ELSE "token-not-created")>>)
    /\ UNCHANGED history
  /\ UNCHANGED besidesSetup

\* The first round from i on whose pattern the listing lacks (0: none):
\* for (const route of routesToCreate) { if (exists) continue; ... }
nextRoute(existingRoutes, customDomain, i) ==
  LET missing == {k \in i..Len(routePatterns(customDomain)) :
                    ~routeExists(existingRoutes, routePatterns(customDomain)[k])}
  IN IF missing = {} THEN 0 ELSE CHOOSE k \in missing : \A j \in missing : k <= j

\* The rounds from i on that are passed over because their route exists.
passedOver(existingRoutes, customDomain, i) ==
  LET to == IF nextRoute(existingRoutes, customDomain, i) = 0
            THEN Len(routePatterns(customDomain))
            ELSE nextRoute(existingRoutes, customDomain, i) - 1
  IN [k \in 1..(to + 1 - i) |-> Log("green", "route-exists")]

\* main() of scripts/setup-quick.js after setupCustomDomainRoutes: the
\* closing line; the process ends normally.
QuickEnds(cfg, logged) ==
  /\ config' = cfg
  /\ step' = At("done", 0)
  /\ console' = console \o logged \o <<Log("green", "quick-setup-complete")>>
  /\ exitCode' = Some(0)
  /\ UNCHANGED <<sent, disk>>

\* setupCustomDomainRoutes returns: scripts/setup.js goes on to write the
\* files, scripts/setup-quick.js ends.
RoutesDone(cfg, logged) ==
  IF cfg.variant = "quick" THEN QuickEnds(cfg, logged)
  ELSE Proceed(At("generateEnv", 0), cfg, logged)

\* The routes loop of setupCustomDomainRoutes from round i on.
RouteLoop(existingRoutes, i, cfg, logged) ==
  LET k == nextRoute(existingRoutes, cfg.customDomain, i)
      passed == logged \o passedOver(existingRoutes, cfg.customDomain, i)
  IN IF k = 0 THEN RoutesDone(cfg, passed)
     ELSE Proceed([at |-> "routeCreate", i |-> k, existingRoutes |-> existingRoutes],
                  cfg, passed)

\* setupCustomDomainRoutes after its listing: is the listing given up?
\* Only scripts/setup-quick.js tests existingRoutesResponse.ok.
listingRefused(variant, fetched) ==
  variant = "quick" /\ ~Ok(fetched.response[1].status)

\* setupCustomDomainRoutes, the listing:
\* existingRoutes = existingRoutesData.result || []
RouteListSettles ==
  /\ step.at = "routeList"
  /\ \E a \in SetupAnswers(sent[Len(sent)], account) :
    /\ Settles(a)
    /\ IF Unreadable(a.fetched)
       THEN RoutesDone(config, <<Log("yellow", "routes-failed")>>)
       ELSE IF listingRefused(config.variant, a.fetched)
       THEN RoutesDone(config, <<Log("yellow", "routes-not-fetched")>>)
       ELSE RouteLoop(orEmpty(a.fetched.response[1].body.result), 1, config, <<>>)
    /\ UNCHANGED history
  /\ UNCHANGED besidesSetup

\* setupCustomDomainRoutes, one create request; scripts/setup.js notes a
\* created route in config.routesCreated.
RouteCreateSettles ==
  /\ step.at = "routeCreate"
  /\ \E a \in SetupAnswers(sent[Len(sent)], account) :
    /\ Settles(a)
    /\ IF Unreadable(a.fetched)
       THEN RoutesDone(config, <<Log("yellow", "routes-failed")>>)
       ELSE IF routeCreated(a.fetched)
       THEN RouteLoop(step.existingRoutes, step.i + 1,
                      [config EXCEPT !.routesCreated = @ \/ config.variant = "js"],
                      <<Log("green", "route-created")>>)
       ELSE RouteLoop(step.existingRoutes, step.i + 1, config,
                      <<Log("yellow", "route-not-created")>>)
    /\ UNCHANGED history
  /\ UNCHANGED besidesSetup

\* execSync of `npx wrangler dispatch-namespace create`: the command ends
\* normally, or execSync throws an error that carries what it printed.
CliResult(failed, stdout, stderr) == [failed |-> failed, stdout |-> stdout, stderr |-> stderr]

MsgNoAccess == "You do not have access to dispatch namespaces"

\* What the command may end with, and the account it leaves.
CliAnswers(acct) ==
  IF acct.mode = "account"
  THEN IF \E k \in 1..Len(acct.namespaces) : acct.namespaces[k].name = namespaceName
       THEN {Answer(CliResult(TRUE, "", MsgAlreadyExists), acct)}
       ELSE IF acct.tokenValid /\ acct.canList
       THEN {Answer(CliResult(FALSE, "Created namespace", ""),
                    [acct EXCEPT !.namespaces = Append(@, NamespaceEntry(NamespaceIdNew))])}
       ELSE {Answer(CliResult(TRUE, "", MsgNoAccess), acct)}
  ELSE {Answer(CliResult(FALSE, "Created namespace", ""), acct)}
       \cup {Answer(CliResult(TRUE, stdout, stderr), acct) :
               stdout \in {"", "wrangler 3.0"},
               stderr \in {"", MsgAlreadyExists, MsgNoAccess, MsgOther}}

\* error.stdout?.toString() || error.stderr?.toString() || ''
cliOutput(result) == IF result.stdout # "" THEN result.stdout ELSE result.stderr

\* ensureDispatchNamespace of scripts/setup-quick.js: the branch taken.
ensureDispatchNamespace(result) ==
  IF ~result.failed THEN "created"
  ELSE IF \/ Includes(cliOutput(result), "already exists")
          \/ Includes(cliOutput(result), "A namespace with this name")
  THEN "exists"
  ELSE IF Includes(cliOutput(result), "You do not have access") THEN "no-access"
  ELSE "failed"

\* routesSkipped without the test of the zone id.
routesSkippedWithoutZone(cfg) ==
  IF cfg.customDomain = "" THEN "no-custom-domain"
  ELSE IF headersOf(cfg) = None THEN "no-credentials"
  ELSE ""

\* setupCustomDomainRoutes of scripts/setup-quick.js before its first
\* request: the line it logs when it returns at once ("" = it goes on).
routesSkipped(cfg) ==
  IF cfg.customDomain = "" THEN "no-custom-domain"
  ELSE IF cfg.zoneId = "" THEN "no-zone-id"
  ELSE IF headersOf(cfg) = None THEN "no-credentials"
  ELSE ""

\* main() of scripts/setup-quick.js up to its first await: the namespace
\* command, then setupCustomDomainRoutes up to its listing request.
EnsureNamespace ==
  /\ step.at = "ensureNamespace"
  /\ \E r \in CliAnswers(account) :
       LET branch == ensureDispatchNamespace(r.fetched)
           ensured == Log(IF branch \in {"created", "exists"} THEN "green" ELSE "yellow",
                          "namespace-" \o branch)
       IN /\ account' = r.store
          /\ history' = [history EXCEPT !.cli = Some(r.fetched)]
          /\ IF routesSkipped(config) # ""
             THEN QuickEnds(config, <<ensured, Log(IF config.customDomain = "" THEN "blue"
                                                   ELSE "yellow", routesSkipped(config))>>)
             ELSE Proceed(At("routeList", 0), config, <<ensured>>)
  /\ UNCHANGED reply
  /\ UNCHANGED besidesSetup

\* generateDevVars of scripts/setup.js writes DISPATCH_NAMESPACE_API_TOKEN
\* for token authentication only; generateEnv always writes it.
writesToken(cfg) == cfg.variant = "ts" \/ cfg.authMethod = "token"

\* envToken that ignores config.dispatchToken.
envTokenSupplied(cfg) == cfg.credentials.apiToken

\* The value written as DISPATCH_NAMESPACE_API_TOKEN:
\* this.config.dispatchToken || this.config.CLOUDFLARE_API_TOKEN
envToken(cfg) ==
  IF cfg.dispatchToken # None /\ cfg.dispatchToken # Some("")
  THEN cfg.dispatchToken[1]
  ELSE cfg.credentials.apiToken

\* generateEnv (.env) / generateDevVars (.dev.vars): CLOUDFLARE_ZONE_ID is
\* written with a custom domain and a zone id.
GenerateEnv ==
  /\ step.at = "generateEnv"
  /\ disk' = [disk EXCEPT !.envWritten = TRUE,
                          !.zoneIdWritten = config.customDomain # "" /\ config.zoneId # "",
                          !.tokenWritten = IF writesToken(config)
                                           THEN Some(envToken(config)) ELSE None]
  /\ step' = At("updateWranglerConfig", 0)
  /\ console' = Append(console, Log("green", "env-generated"))
  /\ UNCHANGED <<config, account, sent, exitCode, reply, history>>
  /\ UNCHANGED besidesSetup

\* addsRoutes without the test of the zone id.
addsRoutesWithoutZone(cfg) == cfg.variant = "ts" /\ cfg.customDomain # ""

\* updateWranglerConfig of the TypeScript script: the routes section is
\* written with a custom domain and a zone id.
addsRoutes(cfg) ==
  /\ cfg.variant = "ts"
  /\ cfg.customDomain # ""
  /\ cfg.zoneId # ""

\* updateWranglerConfig: nothing if fs.existsSync finds no wrangler.toml;
\* CLOUDFLARE_ZONE_ID is replaced when there is a zone id.
UpdateWranglerConfig ==
  /\ step.at = "updateWranglerConfig"
  /\ step' = At("displayFinalReport", 0)
  /\ \E present \in BOOLEAN :
       IF ~present
       THEN /\ console' = Append(console, Log("yellow", "wrangler-not-found"))
            /\ disk' = [disk EXCEPT !.wranglerPresent = FALSE]
            /\ UNCHANGED config
       ELSE /\ console' = Append(console, Log("green", "wrangler-updated"))
            /\ config' = [config EXCEPT !.routesCreated = @ \/ addsRoutes(config)]
            /\ disk' = [disk EXCEPT !.wranglerPresent = TRUE,
                                    !.wranglerWritten = TRUE,
                                    !.routesWritten = addsRoutes(config),
                                    !.zoneIdWritten = @ \/ config.zoneId # ""]
  /\ UNCHANGED <<account, sent, exitCode, reply, history>>
  /\ UNCHANGED besidesSetup

\* The lines of the final report that depend on the run.
reportLines(cfg) ==
  (IF cfg.wfpAvailable = Some(TRUE)
   THEN <<Log("green", "report-wfp-available"), Log("green", "report-namespace-ready")>>
   ELSE <<Log("yellow", "report-wfp-not-available")>>)
  \o (IF cfg.createdToken THEN <<Log("green", "report-token-created")>> ELSE <<>>)
  \o (IF cfg.routesCreated THEN <<Log("green", "report-routes")>> ELSE <<>>)

\* displayFinalReport; setup() returns and the process ends normally.
DisplayFinalReport ==
  /\ step.at = "displayFinalReport"
  /\ step' = At("done", 0)
  /\ console' = console \o reportLines(config)
  /\ exitCode' = Some(0)
  /\ UNCHANGED <<config, account, sent, disk, reply, history>>
  /\ UNCHANGED besidesSetup

----------------------------------------------------------------------------
(* Specification of the provisioning runs *)

\* Routes an account may hold before any run: one for a host the scripts
\* do not touch and one for the apex pattern, bound to another worker.
HeldRoutes ==
  <<[pattern |-> "blog.platform.com/*", script |-> "blog"],
    [pattern |-> "platform.com/*", script |-> "landing-page"]>>

\* The accounts a run may meet: one that answers from what it holds, with
\* or without the target namespace, or a scripted transport.  Routes live
\* in zones, so an account without zones holds none.
Accounts ==
  {acct \in
     {[mode |-> "account", tokenValid |-> valid, canList |-> list, canMint |-> mint,
       namespaces |-> held, minted |-> 0, routes |-> routes, zones |-> zones,
       dropped |-> FALSE] :
        valid \in BOOLEAN, list \in BOOLEAN, mint \in BOOLEAN,
        held \in {<<>>, <<NamespaceEntry(NamespaceIdHeld)>>}, zones \in ZoneSets,
        routes \in {<<>>, HeldRoutes}} :
     acct.zones = {} => acct.routes = <<>>}
  \cup {[NoAccount EXCEPT !.mode = "scripted"]}

\* The controller is not called while provisioning runs.
ApiQuiet ==
  /\ transport = "zone"
  /\ env = [CLOUDFLARE_ZONE_ID |-> "", CLOUDFLARE_API_TOKEN |-> "",
            DISPATCH_NAMESPACE_API_TOKEN |-> ""]
  /\ upstream = [h \in Hostnames |-> <<>>]
  /\ call = [fn |-> "none", hostname |-> ""]
  /\ pc = "idle"
  /\ requests = <<>>
  /\ responses = <<>>
  /\ outcome = Unsettled
  /\ acked = [h \in Hostnames |-> "none"]

SetupInit ==
  /\ config = NoConfig
  /\ account \in Accounts
  /\ step = NotStarted
  /\ sent = <<>>
  /\ console = <<>>
  /\ disk = NoFiles
  /\ exitCode = None
  /\ reply = None
  /\ history = NoHistory
  /\ ApiQuiet
  /\ RegistryQuiet
  /\ PromptQuiet
  /\ RaceQuiet

SetupNext ==
  \/ \E variant \in Variants, authMethod \in AuthMethods :
       \E credentials \in {c \in Credentials : CredentialsOf(variant, authMethod, c)},
          customDomain \in CustomDomains, typedZoneId \in ZoneIdAnswers :
         SetupStart(variant, authMethod, credentials, customDomain, typedZoneId)
  \/ DetectZoneSettles
  \/ VerifySettles
  \/ AccountInfoSettles
  \/ ProbeSettles
  \/ NamespaceCreateSettles
  \/ TokenProbeSettles
  \/ MintSettles
  \/ RouteListSettles
  \/ RouteCreateSettles
  \/ EnsureNamespace
  \/ GenerateEnv
  \/ UpdateWranglerConfig
  \/ DisplayFinalReport

SetupSpec == SetupInit /\ [][SetupNext]_allVars

----------------------------------------------------------------------------
(* scripts/setup-quick.js in its version that detects the zone and writes
   wrangler.toml, and the runs of the quick script on their own *)

\* main(): detectZoneId is called with a custom domain and no zone id.
detectsZone(cfg) == cfg.customDomain # "" /\ cfg.zoneId = ""

\* detectZoneId before its loop: the line it logs when it returns without a
\* request ("" = it queries the zones).
zoneDetectionSkipped(cfg) ==
  IF cfg.customDomain = "" THEN "no-custom-domain"
  ELSE IF cfg.zoneId # "" THEN "zone-provided"
  ELSE IF quickAuthHeaders(cfg.credentials) = None THEN "zone-no-credentials"
  ELSE IF ~detectLoopRuns(cfg.customDomain, 0) THEN "zone-not-detected"
  ELSE ""

\* updateWranglerConfig of scripts/setup-quick.js: the routes section is
\* added with a custom domain and a zone id.
quickAddsRoutes(cfg) == cfg.customDomain # "" /\ cfg.zoneId # ""

\* updateWranglerConfig: is anything replaced?  (FALLBACK_ORIGIN is the
\* environment's value or my.<custom domain>.)
quickModifies(cfg, fallbackOrigin) ==
  cfg.customDomain # "" \/ cfg.zoneId # "" \/ fallbackOrigin # ""

\* main() from updateWranglerConfig to its end: the file is written if
\* anything was replaced, the closing line is logged and the process ends
\* normally.
QuickWrites(cfg, said, issued) ==
  /\ config' = cfg
  /\ step' = At("done", 0)
  /\ sent' = issued
  /\ exitCode' = Some(0)
  /\ \E present \in BOOLEAN, fallbackOrigin \in {"", "origin.platform.com"} :
       IF ~present
       THEN /\ console' = said \o <<Log("yellow", "wrangler-not-found"),
                                    Log("green", "quick-setup-complete")>>
            /\ disk' = [NoFiles EXCEPT !.wranglerPresent = FALSE]
       ELSE /\ console' =
                 said
                 \o (IF quickAddsRoutes(cfg) THEN <<Log("green", "routes-added")>> ELSE <<>>)
                 \o (IF quickModifies(cfg, fallbackOrigin)
                     THEN <<Log("green", "wrangler-updated")>> ELSE <<>>)
                 \o <<Log("green", "quick-setup-complete")>>
            /\ disk' = [NoFiles EXCEPT !.wranglerPresent = TRUE,
                                       !.wranglerWritten = quickModifies(cfg, fallbackOrigin),
                                       !.routesWritten = quickAddsRoutes(cfg),
                                       !.zoneIdWritten = cfg.zoneId # ""]

\* A fresh process: main() up to its first await.  The namespace command
\* runs whatever the environment holds; detectZoneId issues its first query,
\* or main() goes on to updateWranglerConfig.
QuickMain(credentials, customDomain, zoneId) ==
  /\ step.at \in {"idle", "done", "aborted"}
  /\ history.run < MaxRuns
  /\ history.run > 0 => account.mode = "account"
  /\ \E r \in CliAnswers(account) :
       LET cfg == [NoConfig EXCEPT !.variant = "quick3",
                                   !.customDomain = customDomain,
                                   !.zoneId = zoneId,
                                   !.typedZoneId = zoneId,
                                   !.credentials = credentials]
           branch == ensureDispatchNamespace(r.fetched)
           ensured == Log(IF branch \in {"created", "exists"} THEN "green" ELSE "yellow",
                          "namespace-" \o branch)
       IN /\ account' = r.store
          /\ IF detectsZone(cfg) /\ zoneDetectionSkipped(cfg) = ""
             THEN /\ config' = cfg
                  /\ step' = At("quickDetectZone", 0)
                  /\ sent' = <<ZoneQuery(zoneNameAt(customDomain, 0))>>
                  /\ console' = <<ensured, Log("blue", "zone-detecting")>>
                  /\ disk' = NoFiles
                  /\ exitCode' = None
             ELSE QuickWrites(cfg,
                              <<ensured>>
                              \o (IF detectsZone(cfg)
                                  THEN <<Log("yellow", zoneDetectionSkipped(cfg))>>
                                  ELSE <<>>),
                              <<>>)
          /\ history' = [history EXCEPT !.run = @ + 1,
                                        !.afterCompleted = exitCode = Some(0),
                                        !.sameInputs = Inputs(config) = Inputs(cfg),
                                        !.probeDenied = FALSE,
                                        !.cli = Some(r.fetched)]
  /\ reply' = None
  /\ UNCHANGED besidesSetup

\* detectZoneId: one round of the loop.  A match ends it with the zone's
\* id, an exception with a warning and null; main() then goes on to
\* updateWranglerConfig.
QuickDetectZoneSettles ==
  /\ step.at = "quickDetectZone"
  /\ \E a \in SetupAnswers(sent[Len(sent)], account) :
    /\ Settles(a)
    /\ IF Unreadable(a.fetched)
       THEN QuickWrites(config,
                        Append(console, Log("yellow", "zone-detection-failed")), sent)
       ELSE IF zoneFound(a.fetched)
       THEN QuickWrites([config EXCEPT !.zoneId = a.fetched.response[1].body.result[1][1].id],
                        Append(console, Log("green", "zone-found")), sent)
       ELSE IF detectLoopRuns(config.customDomain, step.i + 1)
       THEN /\ config' = config
            /\ step' = At("quickDetectZone", step.i + 1)
            /\ sent' = Append(sent, ZoneQuery(zoneNameAt(config.customDomain, step.i + 1)))
            /\ UNCHANGED <<console, disk, exitCode>>
       ELSE QuickWrites(config,
                        Append(console, Log("yellow", "zone-not-detected")), sent)
    /\ UNCHANGED history
  /\ UNCHANGED besidesSetup

\* The runs of scripts/setup-quick.js alone: the version that creates the
\* routes upstream and the version that writes them to wrangler.toml.
QuickNext ==
  \/ \E authMethod \in AuthMethods :
       \E credentials \in {c \in Credentials : CredentialsOf("quick", authMethod, c)},
          customDomain \in CustomDomains, zoneId \in ZoneIdAnswers :
         SetupStart("quick", authMethod, credentials, customDomain, zoneId)
  \/ EnsureNamespace
  \/ RouteListSettles
  \/ RouteCreateSettles
  \/ \E credentials \in Credentials, customDomain \in CustomDomains,
        zoneId \in ZoneIdAnswers :
       QuickMain(credentials, customDomain, zoneId)
  \/ QuickDetectZoneSettles

QuickSpec == SetupInit /\ [][QuickNext]_allVars

----------------------------------------------------------------------------
(* Vocabulary of the provisioning properties *)

Sent(request) == \E k \in 1..Len(sent) : sent[k] = request
SentTimes(request) == Cardinality({k \in 1..Len(sent) : sent[k] = request})
Logged(about) == \E k \in 1..Len(console) : console[k].about = about

\* The run's latest settled fetch answered this request.
Answered(request) == reply # None /\ reply[1].to = request
Got == reply[1].fetched

\* The answer is a transport error.
TransportError(fetched) == fetched.rejected
\* The answer is a response with a non-success HTTP status.
NonSuccess(fetched) == ~fetched.rejected /\ ~Ok(fetched.response[1].status)
\* The answer is a 2xx response that does not carry success = true.
SuccessFalse(fetched) ==
  /\ ~fetched.rejected
  /\ Ok(fetched.response[1].status)
  /\ ~fetched.response[1].body.success

\* The run has ended with process.exit(1).
RunAborted == step.at = "aborted" /\ exitCode = Some(1)
\* The run has ended after its final report.
RunCompleted == step.at = "done" /\ exitCode = Some(0)

\* No request of this run creates a namespace, a token or a route.
NothingCreated == \A k \in 1..Len(sent) : ~Creates(sent[k])
\* This run has written neither the env file nor wrangler.toml.
NothingWritten == ~disk.envWritten /\ ~disk.wranglerWritten

----------------------------------------------------------------------------
(* Credential verification is fatal *)

\* C14: when the token verification is answered with a transport error, a
\* non-success status or a body without success = true, the run has aborted
\* with exit status 1, none of its requests creates a namespace, a token or
\* a route, and it has written neither the env file nor wrangler.toml.
C14_VerifyFailureAborts ==
  (Answered(VerifyRequest)
     /\ (TransportError(Got) \/ NonSuccess(Got) \/ SuccessFalse(Got)))
  => (RunAborted /\ NothingCreated /\ NothingWritten)

\* A run of the TypeScript script that queried zones for its custom domain
\* and was then refused by the verification with HTTP 200, success = false.
C14_Witness ==
  /\ RunAborted
  /\ Answered(VerifyRequest)
  /\ SuccessFalse(Got)
  /\ Len(sent) > 1

----------------------------------------------------------------------------
(* Nothing but the credential verification is fatal *)

\* C15: a run aborts only on a failed credential verification: whenever a
\* run has aborted, the request answered last is the token verification and
\* its answer is a transport error, a non-success status or a body without
\* success = true.  No failure of a later request (access probe, namespace,
\* token, routes) aborts the run.
C15_OnlyVerificationAborts ==
  RunAborted
  => (Answered(VerifyRequest)
        /\ (TransportError(Got) \/ NonSuccess(Got) \/ SuccessFalse(Got)))

----------------------------------------------------------------------------
(* Without Workers for Platforms access *)

\* The run's latest settled fetch is the access probe: the first namespace
\* listing of the run (ensureDispatchToken issues the second).
ProbeAnswered ==
  /\ Answered(NamespaceListRequest)
  /\ \A k \in 1..(reply[1].n - 1) : sent[k] # NamespaceListRequest

\* This run has issued a request that creates a route, or has written the
\* routes into wrangler.toml.
RouteMade ==
  \/ \E k \in 1..Len(sent) : sent[k].method = "POST" /\ sent[k].resource = "workers/routes"
  \/ disk.routesWritten

\* C16: in a run whose access probe was answered with HTTP 403 or with an
\* error of code 10121, wfpAvailable is false from then on, no
\* namespace-create request is issued, no route is created, and the run is
\* not aborted.
C16_NoAccessSkipsCreation ==
  history.probeDenied
  => /\ config.wfpAvailable = Some(FALSE)
     /\ ~Sent(NamespaceCreateRequest)
     /\ ~RouteMade
     /\ ~RunAborted

----------------------------------------------------------------------------
(* Ensure-namespace is idempotent *)

\* The places of the target name in the listing the access probe obtained.
ListedAt ==
  IF config.existingNamespaces = None THEN {}
  ELSE {k \in 1..Len(config.existingNamespaces[1]) :
          config.existingNamespaces[1][k].name = namespaceName}

\* The create request was answered with an error that says 'already exists'.
CreateAnsweredExists ==
  /\ Answered(NamespaceCreateRequest)
  /\ ~Got.rejected
  /\ Got.response[1].body.type = "object"
  /\ ~Got.response[1].body.success
  /\ hasErrorMessage(Got.response[1].body, "already exists")

\* C17: a namespace-create request is issued only in a run whose access
\* probe found the platform available and whose listing lacks the target
\* name, and at most once; when the listing has the name, the id listed
\* first is taken and no create is issued; a create answered 'already
\* exists' is logged as existing, not as a warning; no run aborts once the
\* probe was issued; and over all runs against one account at most one
\* create succeeds.
C17_EnsureNamespaceIdempotent ==
  /\ Sent(NamespaceCreateRequest)
       => /\ config.wfpAvailable = Some(TRUE)
          /\ ListedAt = {}
          /\ SentTimes(NamespaceCreateRequest) = 1
  /\ ListedAt # {}
       => /\ \E k \in ListedAt :
               /\ \A j \in ListedAt : k <= j
               /\ config.dispatchNamespaceId = Some(config.existingNamespaces[1][k].id)
          /\ ~Sent(NamespaceCreateRequest)
  /\ CreateAnsweredExists
       => /\ \E k \in 1..Len(console) : console[k] = Log("green", "namespace-exists")
          /\ ~Logged("namespace-failed")
  /\ Sent(NamespaceListRequest) => ~RunAborted
  /\ account.mode = "account" => history.created <= 1

\* A second run against the account in which the first run created the
\* namespace: it finds the name listed, takes its id and creates nothing.
C17_Witness ==
  /\ history.run = 2
  /\ history.created = 1
  /\ RunCompleted
  /\ ListedAt # {}
  /\ config.dispatchNamespaceId = Some(NamespaceIdNew)
  /\ ~Sent(NamespaceCreateRequest)

----------------------------------------------------------------------------
(* Ensure-credential mints at most once, and only when the probe fails *)

\* The run's latest settled fetch is the probe of ensureDispatchToken: a
\* namespace listing that is not the run's first.
TokenProbeAnswered == Answered(NamespaceListRequest) /\ ~ProbeAnswered

\* The mint was answered 2xx with success = true but without a token value.
ValueMissing(fetched) ==
  /\ ~fetched.rejected
  /\ Ok(fetched.response[1].status)
  /\ fetched.response[1].body.success
  /\ \/ fetched.response[1].body.result = None
     \/ fetched.response[1].body.result[1].value = None

----------------------------------------------------------------------------
(* Running the reconciliation again *)

\* This run follows a completed run with the same inputs, against the
\* account as that run left it, and no request has failed in transport.
SecondRun ==
  /\ history.run >= 2
  /\ history.afterCompleted
  /\ history.sameInputs
  /\ account.mode = "account"
  /\ ~account.dropped

\* C19: a run that follows a completed run with the same inputs, against
\* the account state that run left, issues no request that creates a
\* namespace, a token or a route.
C19_SecondRunCreatesNothing ==
  SecondRun => NothingCreated

----------------------------------------------------------------------------
(* Zone auto-detection *)

\* The zone names this run has queried, in order.
IsZoneQuery(request) == request.resource = "zones"
ZonesQueried == [k \in 1..Len(SelectSeq(sent, IsZoneQuery)) |-> SelectSeq(sent, IsZoneQuery)[k].name]

\* The names detection may query for each custom domain, written out: the
\* domain, then each suffix with at least two labels.
SuffixesOf(customDomain) ==
  IF customDomain = "a.b.c.com" THEN <<"a.b.c.com", "b.c.com", "c.com">>
  ELSE IF customDomain = "platform.com" THEN <<"platform.com">>
  ELSE <<>>

\* The run's latest settled fetch is a zone query, answered with success
\* and a non-empty result.
ZoneMatched ==
  /\ reply # None /\ IsZoneQuery(reply[1].to)
  /\ ~Got.rejected
  /\ Got.response[1].body.type = "object"
  /\ Got.response[1].body.success
  /\ Got.response[1].body.result # None
  /\ Len(Got.response[1].body.result[1]) > 0

\* The run's latest settled fetch is a zone query, answered with a body that
\* could be read and that is no match.
ZoneMissed ==
  /\ reply # None /\ IsZoneQuery(reply[1].to)
  /\ ~Got.rejected
  /\ Got.response[1].body.type = "object"
  /\ ~ZoneMatched

\* C20: the zone names queried are, in order, the custom domain and then
\* its suffixes with one more leading label stripped each time, never a
\* single label, and they are the first requests of the run; a query
\* answered with success and a non-empty result ends the detection with that
\* result's first zone id and no further query; a query answered without a
\* match is followed by the query for the next suffix while one is left.
C20_ZoneDetectionOrder ==
  /\ Len(ZonesQueried) <= Len(SuffixesOf(config.customDomain))
  /\ \A k \in 1..Len(ZonesQueried) :
       /\ ZonesQueried[k] = SuffixesOf(config.customDomain)[k]
       /\ IsZoneQuery(sent[k])
  /\ ZoneMatched
       => /\ step.at # "detectZone"
          /\ Len(ZonesQueried) = reply[1].n
          /\ config.zoneId = Got.response[1].body.result[1][1].id
  /\ (ZoneMissed /\ reply[1].n < Len(SuffixesOf(config.customDomain)))
       => /\ step.at = "detectZone"
          /\ Len(ZonesQueried) = reply[1].n + 1

\* Detection for a.b.c.com against an account that holds the zone c.com:
\* three queries, the third matched, and the run went on to completion.
C20_Witness ==
  /\ RunCompleted
  /\ account.mode = "account"
  /\ config.customDomain = "a.b.c.com"
  /\ ZonesQueried = <<"a.b.c.com", "b.c.com", "c.com">>
  /\ config.zoneId = ZoneIdOf("c.com")

----------------------------------------------------------------------------
(* Custom-domain routes: what the step requests and what it leaves alone *)

IsRouteCreate(request) == request.method = "POST" /\ request.resource = "workers/routes"

\* The request issued by this step, if it issued one.
Issued == IF Len(sent') = Len(sent) + 1 THEN Some(sent'[Len(sent')]) ELSE None

\* The route set read from the listing that has just settled.
Listed == orEmpty(reply'[1].fetched.response[1].body.result)

\* The route set holds no route of this pattern.
Lacks(routes, pattern) == \A k \in 1..Len(routes) : routes[k].pattern # pattern

\* Every route the account held is still held, unchanged and in its place.
RoutesKept ==
  /\ Len(account.routes) <= Len(account'.routes)
  /\ \A k \in 1..Len(account.routes) : account'.routes[k] = account.routes[k]

\* One step of a run, as C21 requires it.
RouteStep ==
  /\ (step.at = "routeList" /\ step'.at = "routeCreate")
       => step'.existingRoutes = Listed
  /\ (step.at = "routeCreate" /\ step'.at = "routeCreate")
       => step'.existingRoutes = step.existingRoutes
  /\ (Issued # None /\ IsRouteCreate(Issued[1]))
       => /\ step'.at = "routeCreate"
          /\ \E i \in 1..2 : Issued[1].name = routePatterns(config.customDomain)[i]
          /\ Lacks(step'.existingRoutes, Issued[1].name)
          /\ ~Sent(Issued[1])
  /\ Issued # None => Issued[1].method \in {"GET", "POST"}
  /\ RoutesKept

\* C21: a route-create request is issued only for one of the two patterns
\* of the custom domain, only when the route set listed in this run holds no
\* route of that pattern, and at most once per pattern in a run; the run
\* issues no request other than GET and POST, and every route the account
\* held before a step is held unchanged after it.
C21_RoutesCreatedOnlyIfAbsent == [][RouteStep]_allVars

\* A run of scripts/setup.js for platform.com against an account that held
\* the apex route and an unrelated one: only the wildcard route was
\* requested, it was created, and the two held routes are as before.
C21_Witness ==
  /\ RunCompleted
  /\ account.mode = "account"
  /\ config.customDomain = "platform.com"
  /\ ~Sent(RouteCreateRequest("platform.com/*"))
  /\ SentTimes(RouteCreateRequest("*.platform.com/*")) = 1
  /\ account.routes = HeldRoutes \o <<Route("*.platform.com/*")>>

----------------------------------------------------------------------------
(* What the setup scripts print of a stored value *)

\* Longest stored value tried.
MaxValueLen == 20

\* A stored value is a prefix of this one ("" = nothing stored).
SampleValue == "cf0123456789abcdefghijklmnopqrstuvwxyz_X"
StoredValues == {SubSeq(SampleValue, 1, n) : n \in 0..MaxValueLen}

\* The questions the scripts ask with a stored value as the default.
CredentialQuestions == {"Cloudflare API Token", "Cloudflare Global API Key"}
Questions ==
  CredentialQuestions
  \cup {"Cloudflare Account ID", "Cloudflare Account Email", "Zone ID for custom domain"}

UpperChar(c) ==
  IF \E i \in 1..Len(LowerCase) : SubSeq(LowerCase, i, i) = c
  THEN LET i == CHOOSE i \in 1..Len(LowerCase) : SubSeq(LowerCase, i, i) = c
       IN SubSeq(UpperCase, i, i)
  ELSE c

RECURSIVE Upper(_)
Upper(s) ==
  IF Len(s) = 0 THEN s
  ELSE UpperChar(SubSeq(s, 1, 1)) \o Upper(SubSeq(s, 2, Len(s)))

\* sensitivePatterns.some(pattern => question.toUpperCase().includes(pattern))
isSensitive(question) ==
  \E pattern \in {"TOKEN", "SECRET", "KEY", "PASSWORD"} : Includes(Upper(question), pattern)

\* value.substring(from, to)
Substring(value, from, to) ==
  SubSeq(value, from + 1, IF to < Len(value) THEN to ELSE Len(value))

maskSensitiveValue(question, value) ==
  IF isSensitive(question) /\ Len(value) > 8
  THEN Substring(value, 0, 4) \o "..." \o Substring(value, Len(value) - 4, Len(value))
  ELSE value

\* promptWithDefault: the question as it is put to the operator.
promptWithDefault(question, defaultValue) ==
  IF defaultValue # ""
  THEN question \o " [" \o maskSensitiveValue(question, defaultValue) \o "]: "
  ELSE question \o ": "

\* main() of scripts/setup-quick.js: the line that reports the token found.
tokenLine(apiToken) == "   API Token: " \o Substring(apiToken, 0, 8) \o "..."

\* A setup script asks a question whose default is a stored value.
PromptWithDefault(question, defaultValue) ==
  /\ shown' = [by |-> "promptWithDefault", question |-> question,
               value |-> defaultValue,
               text |-> promptWithDefault(question, defaultValue)]
  /\ UNCHANGED besidesPrompts

\* scripts/setup-quick.js reports the configuration it found.
QuickReportsToken(apiToken) ==
  /\ apiToken # ""
  /\ shown' = [by |-> "main", question |-> "Cloudflare API Token", value |-> apiToken,
               text |-> tokenLine(apiToken)]
  /\ UNCHANGED besidesPrompts

PromptInit ==
  /\ PromptQuiet
  /\ RaceQuiet
  /\ ApiQuiet
  /\ SetupQuiet
  /\ RegistryQuiet

PromptNext ==
  \/ \E question \in Questions, defaultValue \in StoredValues :
       PromptWithDefault(question, defaultValue)
  \/ \E apiToken \in StoredValues : QuickReportsToken(apiToken)

PromptSpec == PromptInit /\ [][PromptNext]_allVars

\* The line just printed is about a stored credential.
ShowsCredential == shown.question \in CredentialQuestions /\ shown.value # ""

\* C22: no line printed about a stored credential contains the
\* credential's value in full, whatever its length.
C22_CredentialNeverInFull ==
  ShowsCredential => ~Includes(shown.text, shown.value)

----------------------------------------------------------------------------
(* Which credentials a run authenticates with *)

HasToken == config.credentials.apiToken # ""
HasKeyAndEmail == config.credentials.apiKey # "" /\ config.credentials.apiEmail # ""

\* The header set carries the global key.
UsesKey(headers) == headers # None /\ \E h \in headers[1] : h[1] = "X-Auth-Key"

\* C23: in a run of scripts/setup-quick.js the header set is the bearer
\* header of the token whenever a token is held, also when a key and an
\* e-mail are held too; it carries the key and e-mail only when no token is
\* held and both key and e-mail are; with neither there is no header set,
\* the run issues no request and it does not end in failure.
C23_TokenTakesPrecedence ==
  config.variant = "quick"
  => /\ HasToken
          => headersOf(config) = Some(BearerHeaders(config.credentials.apiToken))
     /\ UsesKey(headersOf(config))
          => /\ ~HasToken /\ HasKeyAndEmail
             /\ headersOf(config) = Some(KeyHeaders(config.credentials.apiKey,
                                                    config.credentials.apiEmail))
     /\ (~HasToken /\ ~HasKeyAndEmail)
          => /\ headersOf(config) = None
             /\ sent = <<>>
             /\ exitCode # Some(1)
     /\ Sent(RouteListRequest) => headersOf(config) # None

\* A run of scripts/setup-quick.js that held a token, a key and an e-mail
\* and listed the routes, and one that held a key alone and ended normally
\* without a request, are both reached; the first is this witness.
C23_Witness ==
  /\ RunCompleted
  /\ config.variant = "quick"
  /\ HasToken /\ HasKeyAndEmail
  /\ Sent(RouteListRequest)
  /\ ~UsesKey(headersOf(config))

----------------------------------------------------------------------------
(* The network error of a status query *)

NetworkErrorRecord == StatusRecord("error", None, Some(<<"Network error">>))

\* The query of this invocation was not answered: fetch rejected.
TransportFailed == Done("getStatus") /\ requests # <<>> /\ responses = <<>>

\* The body of the answer could not be parsed as JSON.
BodyUnparseable ==
  Done("getStatus") /\ QueryAnswered /\ responses[1].body.type = "unparseable"

\* An exception was raised inside the try block: fetch or response.json()
\* rejected, or a field of a parsed body was read that the body does not
\* have (the JSON value null, a first error message that is not a string).
ThrewInTry ==
  \/ TransportFailed
  \/ BodyUnparseable
  \/ /\ Done("getStatus") /\ QueryAnswered
     /\ getStatusParsed(responses[1]) = Throw

\* C37: getCustomHostnameStatus reports a response whose body cannot be
\* parsed as JSON as status error with verification errors
\* <<"Network error">>, whatever the HTTP status, exactly as it reports a
\* transport failure; that record is returned by the catch block only, that
\* is, only after an exception inside the try block.
C37_UnparseableIsNetworkError ==
  /\ (TransportFailed \/ BodyUnparseable) => outcome = Return(NetworkErrorRecord)
  /\ (Done("getStatus") /\ outcome = Return(NetworkErrorRecord)) => ThrewInTry

\* A 403 answer with a body that is not JSON, reported as a network error.
C37_Witness ==
  /\ BodyUnparseable
  /\ responses[1].status = 403
  /\ outcome = Return(NetworkErrorRecord)

----------------------------------------------------------------------------
(* The verification errors of a status record *)

\* C31: every record getCustomHostnameStatus returns, in whichever branch,
\* carries verification_errors as a sequence, empty when there are none and
\* never absent.
C31_VerificationErrorsPresent ==
  Done("getStatus")
    => /\ outcome.kind = "returned"
       /\ Returned.verification_errors # None

----------------------------------------------------------------------------
(* Several records for one hostname *)

\* The hostname query was answered with a success envelope that lists more
\* than one record.
ListedSeveral ==
  /\ QuerySucceeded
  /\ responses[1].body.result # None
  /\ Len(responses[1].body.result[1]) >= 2

FirstListed == responses[1].body.result[1][1]

\* getCustomHostnameStatus has reported the first record listed.
ReportsFirst ==
  (Done("getStatus") /\ ListedSeveral)
    => /\ outcome.kind = "returned"
       /\ Returned.status = FirstListed.status
       /\ Returned.ssl = None <=> FirstListed.ssl = None
       /\ FirstListed.ssl # None => Returned.ssl[1].status = FirstListed.ssl[1].status
       /\ Returned.verification_errors = Some(orEmpty(FirstListed.verification_errors))

\* deleteCustomHostname has issued one DELETE, for the first record listed.
DeletesFirst ==
  (call.fn = "delete" /\ pc \in {"awaitDelete", "done"} /\ ListedSeveral)
    => /\ Len(requests) = 2
       /\ requests[2] = DeleteRequest(env, FirstListed.id)

\* A record leaves the zone in this step only as the one a DELETE in
\* progress names.
OnlyNamedRemoved ==
  \A h \in Hostnames : \A i \in 1..Len(upstream[h]) :
    (\A j \in 1..Len(upstream'[h]) : upstream'[h][j].id # upstream[h][i].id)
      => /\ call.fn = "delete" /\ pc = "awaitDelete"
         /\ requests[2] = DeleteRequest(env, upstream[h][i].id)

SeveralStep ==
  /\ ReportsFirst'
  /\ DeletesFirst'
  /\ OnlyNamedRemoved

\* C30: when more than one record is listed for a hostname,
\* getCustomHostnameStatus reports the first record and
\* deleteCustomHostname issues exactly one DELETE, for the first record's
\* id; no other record is reported or removed.
C30_FirstRecordOnly == [][SeveralStep]_allVars

\* Of two records the zone held for a hostname, deleteCustomHostname has
\* removed the first listed and returned true; the other is still held.
C30_Witness ==
  /\ Done("delete") /\ ListedSeveral
  /\ transport = "zone"
  /\ Returned = TRUE
  /\ Len(upstream[call.hostname]) = 1
  /\ upstream[call.hostname][1].id = responses[1].body.result[1][2].id

----------------------------------------------------------------------------
(* The routes after the routing step *)

\* The routing step of this run reported no failure.
NoRouteFailure ==
  /\ ~Logged("routes-failed")
  /\ ~Logged("routes-not-fetched")
  /\ ~Logged("route-not-created")

\* The account holds a route of this pattern bound to the platform's worker.
BoundToPlatform(pattern) ==
  \E k \in 1..Len(account.routes) : account.routes[k] = Route(pattern)

\* C28: once the routing step of a run has completed without a reported
\* failure, the account holds both {domain}/* and *.{domain}/*, each bound
\* to the platform's own worker, also when a route of the same pattern was
\* held before the step.
C28_BothRoutesBound ==
  (/\ RunCompleted
   /\ account.mode = "account"
   /\ Sent(RouteListRequest)
   /\ NoRouteFailure)
    => \A i \in 1..2 : BoundToPlatform(routePatterns(config.customDomain)[i])

----------------------------------------------------------------------------
(* A custom domain without a zone *)

ZoneQueried == \E k \in 1..Len(sent) : sent[k].resource = "zones"

\* The run is past collectUserConfig.
Collected == step.at \notin {"idle", "detectZone"}

\* The run was aborted while validating the credentials.
AbortedInValidation ==
  /\ step.at = "aborted"
  /\ reply # None
  /\ reply[1].to \in {VerifyRequest, AccountRequest}

\* C29: a run that has a custom domain but neither detected nor was given a
\* zone id creates no route upstream, writes no route and no zone id to the
\* project files, and is not aborted for it; a run without a custom domain
\* issues no zone query and creates no route.
C29_NoZoneNoRoutes ==
  /\ (Collected /\ config.customDomain # "" /\ config.zoneId = "")
       => /\ ~RouteMade
          /\ ~disk.zoneIdWritten
          /\ step.at = "aborted" => AbortedInValidation
  /\ (Collected /\ config.customDomain = "")
       => ~ZoneQueried /\ ~RouteMade

\* A run of the TypeScript script that queried the zones of its domain, was
\* given no zone id and wrote wrangler.toml has completed.
C29_Witness ==
  /\ RunCompleted
  /\ config.variant = "ts"
  /\ config.customDomain = "platform.com"
  /\ config.zoneId = ""
  /\ Sent(ZoneQuery("platform.com"))
  /\ disk.wranglerWritten
  /\ ~RouteMade

----------------------------------------------------------------------------
(* The order of a run *)

\* The run is one of the SetupManager scripts.
Reconciles == config.variant \in {"ts", "js"}

\* The first request of the run is the identity check.
VerifiedFirst == sent # <<>> => sent[1] = VerifyRequest

\* At most one request is in flight: all but the last have been answered.
OneInFlight ==
  Len(sent) <= (IF reply = None THEN 0 ELSE reply[1].n) + 1

\* The place of the first request of a kind in sent (0: none).
FirstAt(request) ==
  IF Sent(request) THEN CHOOSE k \in 1..Len(sent) :
                          sent[k] = request /\ \A j \in 1..(k - 1) : sent[j] # request
  ELSE 0

\* A request of the second kind is never issued before one of the first.
Precedes(first, second) == Sent(second) => (Sent(first) /\ FirstAt(first) < FirstAt(second))

\* Access probe, namespace creation and token minting keep their order, and
\* the files are written and the report shown with no request in flight.
StepsInOrder ==
  /\ Precedes(VerifyRequest, NamespaceListRequest)
  /\ Precedes(NamespaceListRequest, NamespaceCreateRequest)
  /\ Precedes(NamespaceListRequest, MintRequest)
  /\ Sent(NamespaceCreateRequest) /\ Sent(MintRequest)
       => FirstAt(NamespaceCreateRequest) < FirstAt(MintRequest)
  /\ step.at \in {"generateEnv", "updateWranglerConfig", "displayFinalReport", "done"}
       => Len(sent) = (IF reply = None THEN 0 ELSE reply[1].n)
  /\ disk.wranglerWritten => disk.envWritten
  /\ (Logged("report-wfp-available") \/ Logged("report-wfp-not-available"))
       => disk.envWritten

\* C32: a run issues no request before the identity check, and then the
\* access probe, the namespace, the token, the files and the report follow
\* in that order with at most one request in flight.
C32_SequentialVerifyFirst ==
  Reconciles => (VerifiedFirst /\ OneInFlight /\ StepsInOrder)

----------------------------------------------------------------------------
(* The final report *)

\* In this run the namespace was found in the listing, created, or
\* answered 'already exists'.
NamespaceEnsured == Logged("namespace-exists") \/ Logged("namespace-created")

\* C34: the final report says the dispatch namespace is ready only in a run
\* that found the namespace listed, created it, or was answered 'already
\* exists'; it says an API token was created only in a run whose mint
\* succeeded.
C34_ReportTellsWhatHappened ==
  /\ Logged("report-namespace-ready") => NamespaceEnsured
  /\ Logged("report-token-created") => Logged("token-created")

----------------------------------------------------------------------------
(* The token written to the env file *)

\* The env file of this run holds a DISPATCH_NAMESPACE_API_TOKEN line.
TokenLineWritten == disk.envWritten /\ disk.tokenWritten # None

\* C36: whenever the env file is generated, the value written as
\* DISPATCH_NAMESPACE_API_TOKEN is the credential minted in this run exactly
\* when createdToken is set, is the token the operator supplied otherwise,
\* and is never empty.
C36_EnvTokenIsMintedOrSupplied ==
  TokenLineWritten
    => /\ disk.tokenWritten # Some("")
       /\ config.createdToken
            => (Logged("token-created") /\ disk.tokenWritten = Some(MintedToken))
       /\ ~config.createdToken
            => disk.tokenWritten = Some(config.credentials.apiToken)
       /\ disk.tokenWritten = Some(MintedToken) <=> config.createdToken

\* An env file that holds a minted credential.
C36_Witness ==
  /\ TokenLineWritten
  /\ config.createdToken
  /\ disk.tokenWritten = Some(MintedToken)

----------------------------------------------------------------------------
(* The quick setup script never fails *)

Quick == config.variant \in {"quick", "quick3"}
QuickDone == Quick /\ step.at = "done"

\* The process of a quick run ends normally.
QuickNeverFails ==
  Quick => /\ exitCode # Some(1)
           /\ step.at # "aborted"
           /\ step.at = "done" => exitCode = Some(0)

NamespaceFailed == Logged("namespace-failed") \/ Logged("namespace-no-access")
ZoneDetectionFailed ==
  \/ Logged("zone-detection-failed")
  \/ Logged("zone-not-detected")
  \/ Logged("zone-no-credentials")
RouteSetupFailed ==
  \/ Logged("routes-failed")
  \/ Logged("routes-not-fetched")
  \/ Logged("route-not-created")

\* What follows a failed step still runs: after the namespace command the
\* route setup or the zone detection, after the zone detection the update
\* of wrangler.toml, and the closing line after them all.
LaterStepsRun ==
  /\ (QuickDone /\ NamespaceFailed /\ config.variant = "quick")
       => (Logged(routesSkipped(config)) \/ Sent(RouteListRequest))
  /\ (Quick /\ NamespaceFailed /\ config.variant = "quick3"
        /\ config.customDomain # "" /\ config.typedZoneId = ""
        /\ quickAuthHeaders(config.credentials) # None)
       => Sent(ZoneQuery(zoneNameAt(config.customDomain, 0)))
  /\ (QuickDone /\ ZoneDetectionFailed)
       => (Logged("wrangler-not-found") \/ disk.wranglerWritten)
  /\ (QuickDone /\ (NamespaceFailed \/ ZoneDetectionFailed \/ RouteSetupFailed))
       => Logged("quick-setup-complete")

\* Without credentials, or without a zone id, the routes are not set up and
\* the route setup has issued no request.
RoutesSkippedQuietly ==
  /\ (Quick /\ quickAuthHeaders(config.credentials) = None) => sent = <<>>
  /\ (config.variant = "quick" /\ config.zoneId = "") => sent = <<>>
  /\ (Quick /\ config.zoneId = "")
       => /\ ~Sent(RouteListRequest)
          /\ \A k \in 1..Len(sent) : sent[k].resource # "workers/routes"
          /\ ~disk.routesWritten

\* C35: the quick setup script never ends with a failing exit status: a
\* failed namespace creation, zone detection or route setup is logged and
\* the later steps still run, and without credentials or without a zone id
\* the route setup is skipped with no upstream request.
C35_QuickNeverFails ==
  /\ QuickNeverFails
  /\ LaterStepsRun
  /\ RoutesSkippedQuietly

\* A run that met a failed namespace command and a failed route setup and
\* ended normally.
C35_Witness ==
  /\ config.variant = "quick"
  /\ step.at = "done"
  /\ NamespaceFailed
  /\ RouteSetupFailed
  /\ exitCode = Some(0)

----------------------------------------------------------------------------
(* What ensureDispatchNamespace of the quick script returns *)

\* The namespace command of this run failed: execSync threw.
CommandFailed == Quick /\ history.cli # None /\ history.cli[1].failed

\* What the failed command printed, on stdout or on stderr, holds the text.
Printed(text) ==
  Includes(history.cli[1].stdout, text) \/ Includes(history.cli[1].stderr, text)

\* ensureDispatchNamespace returned true: it logged that the namespace was
\* created or that it exists already.
EnsuredTrue == Logged("namespace-created") \/ Logged("namespace-exists")

\* C39: in the quick setup script, whenever the namespace command fails,
\* ensureDispatchNamespace returns true if what the command printed on
\* stdout or stderr contains 'already exists' or 'A namespace with this
\* name', and false for every other failure.
C39_ExistsMeansEnsured ==
  CommandFailed
    => (EnsuredTrue <=> (Printed("already exists") \/ Printed("A namespace with this name")))

----------------------------------------------------------------------------
(* The project registry: the projects table and the calls on it *)

ProjectIds == {"p1", "p2"}
Subdomains == {"acme", "shop"}

\* What a caller may pass as custom_hostname: nothing, "" or a hostname.
HostnameInputs == {None, Some(""), Some("shop.example.org")}

\* A row of the projects table; custom_hostname None is SQL NULL.  The
\* columns name, script_content, created_on and modified_on are always given.
ProjectRow(id, subdomain, custom_hostname) ==
  [id |-> id, subdomain |-> subdomain, custom_hostname |-> custom_hostname]

\* The Project values a caller may pass to CreateProject.
Projects ==
  {ProjectRow(id, subdomain, h) : id \in ProjectIds, subdomain \in Subdomains,
                                  h \in HostnameInputs}

\* The Partial<Project> values a caller may pass to UpdateProject: per
\* column None (left out) or Some(the new value).
Updates ==
  [subdomain : {None} \cup {Some(sub) : sub \in Subdomains},
   custom_hostname : {None, Some(Some("shop.example.org"))}]

\* A statement settles: the table it leaves, and whether it was rejected.
Executed(rows) == [rows |-> rows, failed |-> FALSE]
Errored(rows) == [rows |-> rows, failed |-> TRUE]

\* The schema without UNIQUE on subdomain.
AdmitsIgnoringSubdomain(rows, row, others) ==
  /\ rows # None
  /\ \A k \in others : rows[1][k].id # row.id

\* The constraints of the schema 'id TEXT PRIMARY KEY, ..., subdomain TEXT
\* UNIQUE NOT NULL, custom_hostname TEXT, ...': may the table hold row
\* beside its rows numbered others?
Admits(rows, row, others) ==
  /\ rows # None
  /\ \A k \in others : rows[1][k].id # row.id
  /\ \A k \in others : rows[1][k].subdomain # row.subdomain

\* INSERT INTO projects: rejected when there is no table or a constraint fails.
insert(rows, row) ==
  IF rows # None /\ Admits(rows, row, 1..Len(rows[1])) THEN Executed(Some(Append(rows[1], row)))
  ELSE Errored(rows)

\* project.custom_hostname || null
orNull(h) == IF h = Some("") THEN None ELSE h

\* A row after SET of the columns that updates carries.
Changed(row, updates) ==
  [row EXCEPT !.subdomain = IF updates.subdomain = None THEN @ ELSE updates.subdomain[1],
              !.custom_hostname = IF updates.custom_hostname = None THEN @
                                  ELSE updates.custom_hostname[1]]

\* UPDATE projects SET ... WHERE projects.id IS ?
update(rows, projectId, updates) ==
  IF rows = None THEN Errored(rows)
  ELSE LET at == {k \in 1..Len(rows[1]) : rows[1][k].id = projectId}
       IN IF \A k \in at : Admits(rows, Changed(rows[1][k], updates),
                                   (1..Len(rows[1])) \ {k})
          THEN Executed(Some([k \in 1..Len(rows[1]) |->
                            IF k \in at THEN Changed(rows[1][k], updates) ELSE rows[1][k]]))
          ELSE Errored(rows)

\* SELECT * FROM projects WHERE <column> IS ? LIMIT 1: the first match, or null.
fetchOne(rows, Matches(_)) ==
  LET at == {k \in 1..Len(rows) : Matches(rows[k])}
  IN IF at = {} THEN None ELSE Some(rows[CHOOSE k \in at : \A j \in at : k <= j])

----------------------------------------------------------------------------
(* The registry calls, one action per awaited statement *)

RegistryIdle(c) == tasks[c] = NoTask

Task(fn, at) == [fn |-> fn, at |-> at]

\* A call awaits its next statement.
Awaits(c, fn, at) ==
  /\ tasks' = [tasks EXCEPT ![c] = Task(fn, at)]
  /\ UNCHANGED returned

\* A call of several statements settles.
RegistrySettles(c, fn, args, completion) ==
  /\ tasks' = [tasks EXCEPT ![c] = NoTask]
  /\ returned' = [fn |-> fn, args |-> args, completion |-> completion]

\* A call of one statement settles; the calls in progress stay as they are.
Returns(fn, args, completion) ==
  /\ returned' = [fn |-> fn, args |-> args, completion |-> completion]
  /\ UNCHANGED tasks

Issue(c, kind) == statements' = Append(statements, [by |-> c, kind |-> kind])

\* autoInitializeDatabase up to its first await: nothing if the flag is
\* set, else the query of sqlite_master is issued.
AutoInitializeStarts(c) ==
  /\ RegistryIdle(c)
  /\ IF isInitialized
     THEN /\ RegistrySettles(c, "autoInitializeDatabase", <<>>, Return(None))
          /\ UNCHANGED statements
     ELSE /\ Awaits(c, "autoInitializeDatabase", "tableCheck")
          /\ Issue(c, "tableCheck")
  /\ UNCHANGED <<projects, isInitialized>>
  /\ UNCHANGED besidesRegistry

\* The query of sqlite_master settles: on an exception the catch block sets
\* the flag; with no result the table is created; else the flag is set.
AutoInitializeChecked(c) ==
  /\ tasks[c] = Task("autoInitializeDatabase", "tableCheck")
  /\ \E failed \in BOOLEAN :
       IF failed \/ projects # None
       THEN /\ isInitialized' = TRUE
            /\ RegistrySettles(c, "autoInitializeDatabase", <<>>, Return(None))
            /\ UNCHANGED statements
       ELSE /\ Awaits(c, "autoInitializeDatabase", "createTable")
            /\ Issue(c, "createTable")
            /\ UNCHANGED isInitialized
  /\ UNCHANGED projects
  /\ UNCHANGED besidesRegistry

\* createTable without IF NOT EXISTS: the table is made anew.
createTableAnew(rows) == Some(<<>>)

\* CREATE TABLE IF NOT EXISTS projects
createTable(rows) == IF rows = None THEN Some(<<>>) ELSE rows

\* The createTable of autoInitializeDatabase settles; the flag is set on
\* either path.
AutoInitializeCreated(c) ==
  /\ tasks[c] = Task("autoInitializeDatabase", "createTable")
  /\ \E failed \in BOOLEAN :
       projects' = IF failed THEN projects ELSE createTable(projects)
  /\ isInitialized' = TRUE
  /\ RegistrySettles(c, "autoInitializeDatabase", <<>>, Return(None))
  /\ UNCHANGED statements
  /\ UNCHANGED besidesRegistry

\* Initialize: DROP TABLE IF EXISTS projects is issued.
InitializeStarts(c) ==
  /\ RegistryIdle(c)
  /\ Awaits(c, "Initialize", "dropTable")
  /\ UNCHANGED <<projects, isInitialized, statements>>
  /\ UNCHANGED besidesRegistry

\* The dropTable of Initialize settles; an exception leaves Initialize.
InitializeDropped(c) ==
  /\ tasks[c] = Task("Initialize", "dropTable")
  /\ \E failed \in BOOLEAN :
       IF failed
       THEN /\ RegistrySettles(c, "Initialize", <<>>, Throw)
            /\ UNCHANGED projects
       ELSE /\ Awaits(c, "Initialize", "createTable")
            /\ projects' = None
  /\ UNCHANGED <<isInitialized, statements>>
  /\ UNCHANGED besidesRegistry

\* The createTable of Initialize settles.
InitializeCreated(c) ==
  /\ tasks[c] = Task("Initialize", "createTable")
  /\ \E failed \in BOOLEAN :
       IF failed
       THEN /\ RegistrySettles(c, "Initialize", <<>>, Throw)
            /\ UNCHANGED projects
       ELSE /\ RegistrySettles(c, "Initialize", <<>>, Return(None))
            /\ projects' = createTable(projects)
  /\ UNCHANGED <<isInitialized, statements>>
  /\ UNCHANGED besidesRegistry

\* A call of one statement: it settles as the statement does.
Statement(fn, args, settled) ==
  /\ projects' = settled.rows
  /\ Returns(fn, args, IF settled.failed THEN Throw ELSE Return(None))
  /\ UNCHANGED <<isInitialized, statements>>
  /\ UNCHANGED besidesRegistry

\* CreateProject(project): custom_hostname || null, then one INSERT.
CreateProject(project) ==
  LET dbProject == [project EXCEPT !.custom_hostname = orNull(@)]
  IN Statement("CreateProject", <<dbProject>>, insert(projects, dbProject))

\* UpdateProject(projectId, updates): one UPDATE.
UpdateProject(projectId, updates) ==
  Statement("UpdateProject", <<projectId, updates>>, update(projects, projectId, updates))

\* A lookup: one SELECT, which fails when there is no table.
Lookup(fn, key, Matches(_)) ==
  /\ Returns(fn, <<key>>, IF projects = None THEN Throw
                          ELSE Return(fetchOne(projects[1], Matches)))
  /\ UNCHANGED <<projects, isInitialized, statements>>
  /\ UNCHANGED besidesRegistry

\* GetProjectBySubdomain(subdomain)
GetProjectBySubdomain(subdomain) ==
  LET Matches(row) == row.subdomain = subdomain
  IN Lookup("GetProjectBySubdomain", subdomain, Matches)

\* GetProjectByCustomHostname(hostname)
GetProjectByCustomHostname(hostname) ==
  LET Matches(row) == row.custom_hostname = Some(hostname)
  IN Lookup("GetProjectByCustomHostname", hostname, Matches)

\* The worker instance is replaced: the module is loaded afresh, the calls
\* in progress are gone, the database stays.
WorkerRestarts ==
  /\ isInitialized' = FALSE
  /\ tasks' = [c \in Callers |-> NoTask]
  /\ statements' = <<>>
  /\ returned' = NothingReturned
  /\ UNCHANGED projects
  /\ UNCHANGED besidesRegistry

----------------------------------------------------------------------------
(* Hostname classification *)

rootDomain == "platform.com"

\* The hosts a request may name.
RequestHosts ==
  {"platform.com", "build.platform.com", "acme.platform.com", "shop.platform.com",
   "a.acme.platform.com", "shop.example.org", "foo.com", "myplatform.com",
   "ACME.Platform.com."}

\* Hostnames are lower-cased and a trailing dot is stripped before matching.
normalizeHost(host) ==
  LET lower == Lower(host)
  IN IF Len(lower) > 0 /\ SubSeq(lower, Len(lower), Len(lower)) = "."
     THEN SubSeq(lower, 1, Len(lower) - 1) ELSE lower

\* The reserved platform routes: the apex and the builder UI.
ReservedHosts(root) == {root, "build." \o root}

EndsWith(s, suffix) ==
  Len(suffix) <= Len(s) /\ SubSeq(s, Len(s) - Len(suffix) + 1, Len(s)) = suffix

\* What is left of host in front of ".{root}".
LabelOf(host, root) == SubSeq(host, 1, Len(host) - Len(root) - 1)

\* classify testing the subdomain form before the reserved routes.
classifySubdomainFirst(requestHost, root) ==
  LET host == normalizeHost(requestHost)
  IN IF /\ EndsWith(host, "." \o root)
        /\ LabelOf(host, root) # ""
        /\ ~Includes(LabelOf(host, root), ".")
     THEN [class |-> "tenant-subdomain", key |-> LabelOf(host, root)]
     ELSE IF host \in ReservedHosts(root) THEN [class |-> "platform", key |-> ""]
     ELSE [class |-> "custom-hostname", key |-> host]

\* Rules 1 to 3: the class of a host and the key of its registry lookup.
classify(requestHost, root) ==
  LET host == normalizeHost(requestHost)
  IN IF host \in ReservedHosts(root) THEN [class |-> "platform", key |-> ""]
     ELSE IF /\ EndsWith(host, "." \o root)
             /\ LabelOf(host, root) # ""
             /\ ~Includes(LabelOf(host, root), ".")
     THEN [class |-> "tenant-subdomain", key |-> LabelOf(host, root)]
     ELSE [class |-> "custom-hostname", key |-> host]

\* Rule 4: the registry lookup of a classified host; no match is unresolved.
resolve(classified, rows) ==
  LET BySubdomain(row) == row.subdomain = classified.key
      ByHostname(row) == row.custom_hostname = Some(classified.key)
      found == IF classified.class = "tenant-subdomain" THEN fetchOne(rows, BySubdomain)
               ELSE fetchOne(rows, ByHostname)
  IN IF classified.class = "platform" THEN [classified EXCEPT !.key = ""]
     ELSE IF found = None THEN [class |-> "unresolved", key |-> classified.key]
     ELSE classified

\* A request is classified against the registry.
Classify(requestHost) ==
  /\ projects # None
  /\ Returns("classify", <<requestHost>>,
             Return(resolve(classify(requestHost, rootDomain), projects[1])))
  /\ UNCHANGED <<projects, isInitialized, statements>>
  /\ UNCHANGED besidesRegistry

----------------------------------------------------------------------------
(* Specification of the registry *)

RegistryInit ==
  /\ RegistryQuiet
  /\ ApiQuiet
  /\ SetupQuiet
  /\ PromptQuiet
  /\ RaceQuiet

RegistryNext ==
  \/ \E c \in Callers : AutoInitializeStarts(c)
  \/ \E c \in Callers : AutoInitializeChecked(c)
  \/ \E c \in Callers : AutoInitializeCreated(c)
  \/ \E c \in Callers : InitializeStarts(c)
  \/ \E c \in Callers : InitializeDropped(c)
  \/ \E c \in Callers : InitializeCreated(c)
  \/ \E project \in Projects : CreateProject(project)
  \/ \E projectId \in ProjectIds, updates \in Updates : UpdateProject(projectId, updates)
  \/ \E subdomain \in Subdomains : GetProjectBySubdomain(subdomain)
  \/ \E hostname \in {"", "shop.example.org"} : GetProjectByCustomHostname(hostname)
  \/ WorkerRestarts

RegistrySpec == RegistryInit /\ [][RegistryNext]_allVars

----------------------------------------------------------------------------
(* Claims about the registry's uniqueness rules *)

\* The rows of the projects table; none while there is no table.
Rows == orEmpty(projects)

\* A registry call settled in this step.
Settled(fn) ==
  /\ returned'.fn = fn
  /\ returned.fn = fn => returned' # returned

\* Another stored project than projectId holds the subdomain.
SubdomainTaken(subdomain, projectId) ==
  \E k \in 1..Len(Rows) :
    Rows[k].subdomain = subdomain /\ Rows[k].id # projectId

IsStored(projectId) == \E k \in 1..Len(Rows) : Rows[k].id = projectId

NoTwoShareSubdomain(rows) ==
  \A j, k \in 1..Len(rows) : j # k => rows[j].subdomain # rows[k].subdomain

RejectedUnchanged == returned'.completion = Throw /\ projects' = projects

SubdomainStep ==
  /\ NoTwoShareSubdomain(orEmpty(projects'))
  /\ (/\ Settled("CreateProject")
      /\ SubdomainTaken(returned'.args[1].subdomain, "")) => RejectedUnchanged
  /\ (/\ Settled("UpdateProject")
      /\ returned'.args[2].subdomain # None
      /\ IsStored(returned'.args[1])
      /\ SubdomainTaken(returned'.args[2].subdomain[1], returned'.args[1]))
       => RejectedUnchanged

\* C24: whatever calls are made on the registry, no two stored projects have
\* the same subdomain: a CreateProject or UpdateProject that would give a
\* second project a subdomain already stored throws and leaves the stored
\* projects as they were.
C24_SubdomainUnique == [][SubdomainStep]_allVars

\* An UpdateProject that asked for the subdomain of the other of two stored
\* projects has thrown.
C24_Witness ==
  /\ returned.fn = "UpdateProject"
  /\ returned.completion = Throw
  /\ Len(Rows) = 2
  /\ IsStored(returned.args[1])
  /\ returned.args[2].subdomain # None
  /\ SubdomainTaken(returned.args[2].subdomain[1], returned.args[1])

\* C25: whatever calls are made on the registry, no two stored projects have
\* the same non-null custom_hostname, so that GetProjectByCustomHostname(h)
\* has at most one project to return.
C25_CustomHostnameUnique ==
  \A j, k \in 1..Len(Rows) :
    (j # k /\ Rows[j].custom_hostname # None)
      => Rows[j].custom_hostname # Rows[k].custom_hostname

\* The statements of a kind that autoInitializeDatabase has issued in this
\* worker instance.
IssuedOf(kind) == Cardinality({k \in 1..Len(statements) : statements[k].kind = kind})

SchemaSetUpOnce == IssuedOf("tableCheck") <= 1 /\ IssuedOf("createTable") <= 1

\* A call of autoInitializeDatabase made once the flag is set issues nothing.
InitializedCallsAreQuiet ==
  (isInitialized /\ Len(statements') > Len(statements))
    => ~RegistryIdle(statements'[Len(statements')].by)

InitializeOnceStep == SchemaSetUpOnce' /\ InitializedCallsAreQuiet

\* C33: within one worker instance, over any interleaving of calls of
\* autoInitializeDatabase, the schema check and the table creation are
\* each executed at most once, and a call made after a call has returned
\* issues no statement.
C33_InitializedOnce == [][InitializeOnceStep]_allVars

\* A step of a call of autoInitializeDatabase.
AutoInitializeStep ==
  \E c \in Callers :
    /\ tasks'[c] # tasks[c]
    /\ tasks[c].fn = "autoInitializeDatabase" \/ tasks'[c].fn = "autoInitializeDatabase"

\* A call of autoInitializeDatabase returns in this step.
AutoInitializeReturns ==
  \/ \E c \in Callers : /\ tasks[c].fn = "autoInitializeDatabase"
                        /\ tasks'[c] = NoTask
                        /\ returned' # NothingReturned
  \/ returned'.fn = "autoInitializeDatabase" /\ returned' # returned

\* The step keeps the table and its rows, or creates the absent table.
KeepsData ==
  \/ projects' = projects
  \/ projects = None /\ projects' = Some(<<>>)

\* The step drops the table or removes a project.
RemovesData ==
  /\ projects # None
  /\ \/ projects' = None
     \/ \E k \in 1..Len(Rows) : \A j \in 1..Len(Rows') : Rows'[j].id # Rows[k].id

\* The dropTable of Initialize.
InitializeDrops ==
  \E c \in Callers : /\ tasks[c] = Task("Initialize", "dropTable")
                    /\ tasks'[c] = Task("Initialize", "createTable")

InitializeKeepsStep ==
  /\ AutoInitializeStep => KeepsData
  /\ AutoInitializeReturns
       => /\ isInitialized'
          /\ returned'.fn = "autoInitializeDatabase"
          /\ returned'.completion.kind = "returned"
  /\ RemovesData => (InitializeDrops /\ projects' = None /\ Rows' = <<>>)

\* C38: autoInitializeDatabase never throws and never removes data: it
\* creates the projects table only when the table is absent and leaves every
\* project row as it is, and the initialized flag is set when it returns, on
\* every path; only Initialize drops the table, and the registry then holds
\* no projects.
C38_AutoInitializeKeepsData == [][InitializeKeepsStep]_allVars

\* autoInitializeDatabase has returned in a worker instance whose table
\* held a project.
C38_Witness ==
  /\ returned.fn = "autoInitializeDatabase"
  /\ isInitialized
  /\ IssuedOf("tableCheck") > 0
  /\ Len(Rows) > 0

----------------------------------------------------------------------------
(* Specification of the classifier: any registry the schema admits, and the
   requests classified against it *)

\* The tables of at most two rows that the schema admits.
Tables ==
  {<<>>} \cup {<<row>> : row \in Projects}
         \cup {rows \in {<<r1, r2>> : r1 \in Projects, r2 \in Projects} :
                 Admits(Some(rows), rows[2], {1})}

ClassifyInit ==
  /\ projects \in {Some(rows) : rows \in Tables}
  /\ isInitialized = TRUE
  /\ tasks = [c \in Callers |-> NoTask]
  /\ statements = <<>>
  /\ returned = NothingReturned
  /\ ApiQuiet
  /\ SetupQuiet
  /\ PromptQuiet
  /\ RaceQuiet

ClassifyNext ==
  \/ \E requestHost \in RequestHosts : Classify(requestHost)

ClassifySpec == ClassifyInit /\ [][ClassifyNext]_allVars

----------------------------------------------------------------------------
(* Claims about the classifier *)

Classes == {"platform", "tenant-subdomain", "custom-hostname", "unresolved"}

Classified == returned.fn = "classify" /\ returned.completion.kind = "returned"

ClassifiedHost == normalizeHost(returned.args[1])

ClassOf == returned.completion.value[1].class

KeyOf == returned.completion.value[1].key

\* host is {label}.{root} for a label without a dot.
HasLabel(host, root) ==
  \E n \in 1..Len(host) :
    /\ SubSeq(host, n + 1, Len(host)) = "." \o root
    /\ \A i \in 1..n : SubSeq(host, i, i) # "."

HasSubdomain(label) == \E k \in 1..Len(Rows) : Rows[k].subdomain = label

HasHostname(host) == \E k \in 1..Len(Rows) : Rows[k].custom_hostname = Some(host)

\* C26: every request host gets exactly one class, by the rules in order: a
\* reserved platform route is platform, also when it has the form
\* {label}.{root}; otherwise a host {label}.{root} with no dot in the label
\* is tenant-subdomain with that label; otherwise it is custom-hostname;
\* and a tenant-subdomain or custom-hostname that the registry does not
\* hold is unresolved.
C26_ClassifiedInOrder ==
  Classified =>
    /\ ClassOf \in Classes
    /\ ClassifiedHost \in ReservedHosts(rootDomain) <=> ClassOf = "platform"
    /\ (/\ ClassifiedHost \notin ReservedHosts(rootDomain)
        /\ HasLabel(ClassifiedHost, rootDomain))
         => /\ HasLabel(KeyOf \o "." \o rootDomain, rootDomain)
            /\ KeyOf \o "." \o rootDomain = ClassifiedHost
            /\ ClassOf = IF HasSubdomain(KeyOf) THEN "tenant-subdomain" ELSE "unresolved"
    /\ (/\ ClassifiedHost \notin ReservedHosts(rootDomain)
        /\ ~HasLabel(ClassifiedHost, rootDomain))
         => /\ KeyOf = ClassifiedHost
            /\ ClassOf = IF HasHostname(KeyOf) THEN "custom-hostname" ELSE "unresolved"
    /\ returned.args[1] = "build.platform.com" => ClassOf = "platform"
    /\ (returned.args[1] = "acme.platform.com" /\ HasSubdomain("acme"))
         => ClassOf = "tenant-subdomain" /\ KeyOf = "acme"
    /\ (returned.args[1] = "shop.example.org" /\ HasHostname("shop.example.org"))
         => ClassOf = "custom-hostname"

\* build.platform.com has been classified against a registry that holds
\* two projects.
C26_Witness ==
  /\ Classified
  /\ returned.args[1] = "build.platform.com"
  /\ ClassOf = "platform"
  /\ Len(Rows) = 2

----------------------------------------------------------------------------
(* Two provisioning runs of the TypeScript script at once: setupResources
   of each, from the access probe to the end of ensureDispatchToken,
   against one account *)

\* What a step of one of the two runs leaves alone.
besidesRace ==
  <<vars, registryVars, promptVars,
    config, step, sent, console, disk, exitCode, reply, history>>

\* The accounts the two runs may meet: the credential is valid, and the
\* account answers from what it holds.
RaceAccounts ==
  {[NoAccount EXCEPT !.tokenValid = TRUE, !.canList = list, !.canMint = mint,
                     !.namespaces = held] :
     list \in BOOLEAN, mint \in BOOLEAN, held \in {<<>>, <<OtherNamespace>>}}

\* A run moves on.
RunMoves(r, to, cfg) == runs' = [runs EXCEPT ![r].at = to, ![r].config = cfg]

\* validateCredentials has succeeded; checkWorkersForPlatformsAccess issues
\* its listing.
RaceStarts(r) ==
  /\ runs[r].at = "idle"
  /\ RunMoves(r, "probe", [NoConfig EXCEPT !.variant = "ts"])
  /\ UNCHANGED account
  /\ UNCHANGED besidesRace

\* checkWorkersForPlatformsAccess, then ensureDispatchNamespace up to its
\* own request.
RaceProbeSettles(r) ==
  /\ runs[r].at = "probe"
  /\ \E a \in SetupAnswers(NamespaceListRequest, account) :
       /\ account' = a.store
       /\ LET cfg == checkWorkersForPlatformsAccess(runs[r].config, a.fetched)
              plan == namespacePlan(cfg)
          IN IF plan = "skipped" THEN RunMoves(r, "tokenProbe", cfg)
             ELSE IF plan = "reused"
             THEN RunMoves(r, "tokenProbe",
                           [cfg EXCEPT !.dispatchNamespaceId = Some(existingNamespace(cfg)[1].id)])
             ELSE RunMoves(r, "createNamespace", cfg)
  /\ UNCHANGED besidesRace

\* ensureDispatchNamespace, the create request.
RaceCreateSettles(r) ==
  /\ runs[r].at = "createNamespace"
  /\ \E a \in SetupAnswers(NamespaceCreateRequest, account) :
       /\ account' = a.store
       /\ RunMoves(r, "tokenProbe",
                   IF namespaceCreated("ts", a.fetched) = "created"
                   THEN [runs[r].config EXCEPT !.dispatchNamespaceId =
                                                 Some(a.fetched.response[1].body.result[1].id)]
                   ELSE runs[r].config)
  /\ UNCHANGED besidesRace

\* ensureDispatchToken, the probe.
RaceTokenProbeSettles(r) ==
  /\ runs[r].at = "tokenProbe"
  /\ \E a \in SetupAnswers(NamespaceListRequest, account) :
       /\ account' = a.store
       /\ LET kept == [runs[r].config EXCEPT !.dispatchToken = Some(UserToken)]
              to == IF ~a.fetched.rejected /\ ~tokenProbeOk(a.fetched) THEN "mint" ELSE "done"
          IN runs' = [runs EXCEPT ![r].at = to,
                                  ![r].config = IF to = "mint" THEN @ ELSE kept,
                                  ![r].mintedAtProbe = account.minted]
  /\ UNCHANGED besidesRace

\* ensureDispatchToken, the mint request.
RaceMintSettles(r) ==
  /\ runs[r].at = "mint"
  /\ \E a \in SetupAnswers(MintRequest, account) :
       /\ account' = a.store
       /\ RunMoves(r, "done",
                   IF mintSucceeded(a.fetched)
                   THEN [runs[r].config EXCEPT
                           !.dispatchToken = a.fetched.response[1].body.result[1].value,
                           !.createdToken = TRUE]
                   ELSE [runs[r].config EXCEPT !.dispatchToken = Some(UserToken)])
  /\ UNCHANGED besidesRace

RaceInit ==
  /\ runs = [r \in RunIds |-> NoRun]
  /\ account \in RaceAccounts
  /\ config = NoConfig
  /\ step = NotStarted
  /\ sent = <<>>
  /\ console = <<>>
  /\ disk = NoFiles
  /\ exitCode = None
  /\ reply = None
  /\ history = NoHistory
  /\ ApiQuiet
  /\ RegistryQuiet
  /\ PromptQuiet

RaceNext ==
  \/ \E r \in RunIds : RaceStarts(r)
  \/ \E r \in RunIds : RaceProbeSettles(r)
  \/ \E r \in RunIds : RaceCreateSettles(r)
  \/ \E r \in RunIds : RaceTokenProbeSettles(r)
  \/ \E r \in RunIds : RaceMintSettles(r)

RaceSpec == RaceInit /\ [][RaceNext]_allVars

----------------------------------------------------------------------------
(* Claims about two runs at once *)

BothDone == \A r \in RunIds : runs[r].at = "done"

BothHadAccess == \A r \in RunIds : runs[r].config.wfpAvailable = Some(TRUE)

TargetNamespaces ==
  Cardinality({k \in 1..Len(account.namespaces) : account.namespaces[k].name = namespaceName})

NoRunAborted == \A r \in RunIds : runs[r].at # "aborted"

OneTargetNamespace ==
  (BothDone /\ BothHadAccess /\ ~account.dropped) => TargetNamespaces = 1

\* A run minted only if no token had been minted when it probed.
MintedOnlyInTheGap ==
  \A r \in RunIds : runs[r].config.createdToken => runs[r].mintedAtProbe = 0

\* C27: when two runs interleave against one account that de-duplicates
\* namespaces by name, neither aborts, exactly one namespace of the target
\* name exists once both are done, and a second token is minted only when
\* both runs probed before either minted.
C27_RaceTolerated ==
  /\ NoRunAborted
  /\ OneTargetNamespace
  /\ MintedOnlyInTheGap

====
